---------------------------- MODULE Spec2Model ----------------------------
(***************************************************************************)
(* The nImage header codec of nimage-rs: ImageHeader / PartHeader parsing, *)
(* validation and serialisation (src/format.rs), the primitive reader and  *)
(* writer helpers (src/util.rs) and the xxHash32 wrappers (src/xxhio.rs).  *)
(*                                                                         *)
(* Number representation.  TLC integers are 32-bit signed, so a u32 is the *)
(* pair <<hi, lo>> of its 16-bit halves and a u64 is the 4-tuple of its    *)
(* 16-bit words, most significant first.  A byte is an integer 0..255, a   *)
(* buffer a sequence of bytes, and a Rust String the sequence of its UTF-8 *)
(* bytes.                                                                  *)
(***************************************************************************)
EXTENDS Integers, Sequences, FiniteSets, TLC

\* ------------------------------------------------------------------------
\* 32-bit wrapping arithmetic on <<hi, lo>> pairs
\* ------------------------------------------------------------------------
W16 == 2 ^ 16

Pow2(n) == 2 ^ n

\* u32 wrapping_add
Add32(a, b) ==
    LET lo == a[2] + b[2]
        hi == a[1] + b[1] + (lo \div W16)
    IN  <<hi % W16, lo % W16>>

\* u32 + small non-negative integer (n < 2^15), wrapping
AddInt32(a, n) == Add32(a, <<0, n>>)

\* low 16 bits of x * p for 16-bit x, p
MulLo16(x, p) ==
    LET p0 == p % 256
        p1 == p \div 256
    IN  ((x * p0) + (((x * p1) % 256) * 256)) % W16

\* full 32-bit product <<hi, lo>> of 16-bit x, p
MulFull16(x, p) ==
    LET p0 == p % 256
        p1 == p \div 256
        t0 == x * p0
        t1 == x * p1
        s  == t0 + ((t1 % 256) * 256)
    IN  <<((s \div W16) + (t1 \div 256)) % W16, s % W16>>

\* u32 wrapping_mul
Mul32(a, p) ==
    LET f == MulFull16(a[2], p[2])
    IN  <<(f[1] + MulLo16(a[1], p[2]) + MulLo16(a[2], p[1])) % W16, f[2]>>

\* u32 rotate_left by r, 0 < r < 32
Rotl32(a, r) ==
    LET x == IF r >= 16 THEN <<a[2], a[1]>> ELSE a
        s == IF r >= 16 THEN r - 16 ELSE r
        m == Pow2(16 - s)
        k == Pow2(s)
    IN  <<((x[1] % m) * k) + (x[2] \div m), ((x[2] % m) * k) + (x[1] \div m)>>

\* u32 >> r, 0 < r <= 16
Shr32(a, r) ==
    IF r = 16 THEN <<0, a[1]>>
    ELSE LET d == Pow2(r)
         IN  <<a[1] \div d, ((a[1] % d) * Pow2(16 - r)) + (a[2] \div d)>>

RECURSIVE XorBits(_, _, _)
XorBits(x, y, n) ==
    IF n = 0 THEN 0
    ELSE ((x + y) % 2) + (2 * XorBits(x \div 2, y \div 2, n - 1))

Xor32(a, b) == <<XorBits(a[1], b[1], 16), XorBits(a[2], b[2], 16)>>

\* ------------------------------------------------------------------------
\* little-endian conversions (u32::from_le_bytes, u64::to_le_bytes, ...)
\* ------------------------------------------------------------------------
\* the 4 bytes of buf starting at (1-based) index i, as a u32
U32FromLE(buf, i) ==
    <<buf[i + 2] + (256 * buf[i + 3]), buf[i] + (256 * buf[i + 1])>>

U32ToLE(v) ==
    <<v[2] % 256, v[2] \div 256, v[1] % 256, v[1] \div 256>>

\* the 8 bytes of buf starting at (1-based) index i, as a u64
U64FromLE(buf, i) ==
    <<buf[i + 6] + (256 * buf[i + 7]), buf[i + 4] + (256 * buf[i + 5]),
      buf[i + 2] + (256 * buf[i + 3]), buf[i] + (256 * buf[i + 1])>>

U64ToLE(v) ==
    <<v[4] % 256, v[4] \div 256, v[3] % 256, v[3] \div 256,
      v[2] % 256, v[2] \div 256, v[1] % 256, v[1] \div 256>>

Zeros(n) == [i \in 1..n |-> 0]

\* ------------------------------------------------------------------------
\* twox_hash::XxHash32 as used by src/xxhio.rs (seed 0)
\* ------------------------------------------------------------------------
PRIME32_1 == <<40503, 31153>>   \* 0x9E3779B1
PRIME32_2 == <<34283, 51831>>   \* 0x85EBCA77
PRIME32_3 == <<49842, 44605>>   \* 0xC2B2AE3D
PRIME32_4 == <<10196, 60207>>   \* 0x27D4EB2F
PRIME32_5 == <<5718, 26545>>    \* 0x165667B1

\* four lanes of four bytes
XXH_STRIPE == 4 * 4

\* one accumulator round over a 4-byte lane
XxhRound(acc, lane) == Mul32(Rotl32(Add32(acc, Mul32(lane, PRIME32_2)), 13), PRIME32_1)

\* XxHash32::with_seed(0): accumulators, total length, pending bytes
XxhNew ==
    [v   |-> <<Add32(PRIME32_1, PRIME32_2), PRIME32_2, <<0, 0>>,
               <<W16 - 1 - PRIME32_1[1], W16 - PRIME32_1[2]>> >>,
     total_len |-> 0,
     buffer |-> <<>>]

\* consume the whole 16-byte stripes of data from (1-based) index i on
\* (the second disjunct is never true: it makes TLC evaluate v before the
\* recursion descends, which keeps the evaluation stack shallow)
RECURSIVE XxhStripes(_, _, _)
XxhStripes(v, data, i) ==
    IF (i + XXH_STRIPE - 1 > Len(data)) \/ (v[1][1] < 0) THEN v
    ELSE XxhStripes(<<XxhRound(v[1], U32FromLE(data, i)),
                      XxhRound(v[2], U32FromLE(data, i + 4)),
                      XxhRound(v[3], U32FromLE(data, i + 8)),
                      XxhRound(v[4], U32FromLE(data, i + 12))>>,
                    data, i + XXH_STRIPE)

\* variant of XxhWrite that forgets the bytes left pending by the call before
XxhWriteNoCarry(h, bytes) ==
    LET full == (Len(bytes) \div XXH_STRIPE) * XXH_STRIPE
    IN  [v |-> XxhStripes(h.v, bytes, 1),
         total_len |-> h.total_len + Len(bytes),
         buffer |-> SubSeq(bytes, full + 1, Len(bytes))]

\* Hasher::write: append to the pending bytes, consume the full stripes
XxhWrite(h, bytes) ==
    LET data == h.buffer \o bytes
        full == (Len(data) \div XXH_STRIPE) * XXH_STRIPE
    IN  [v |-> XxhStripes(h.v, data, 1),
         total_len |-> h.total_len + Len(bytes),
         buffer |-> SubSeq(data, full + 1, Len(data))]

RECURSIVE XxhTail(_, _, _)
XxhTail(acc, buf, i) ==
    IF (i > Len(buf)) \/ (acc[1] < 0) THEN acc
    ELSE IF i + 3 <= Len(buf)
    THEN XxhTail(Mul32(Rotl32(Add32(acc, Mul32(U32FromLE(buf, i), PRIME32_3)), 17),
                       PRIME32_4), buf, i + 4)
    ELSE XxhTail(Mul32(Rotl32(Add32(acc, Mul32(<<0, buf[i]>>, PRIME32_5)), 11),
                       PRIME32_1), buf, i + 1)

XxhAvalanche(h0) ==
    LET h1 == Mul32(Xor32(h0, Shr32(h0, 15)), PRIME32_2)
        h2 == Mul32(Xor32(h1, Shr32(h1, 13)), PRIME32_3)
    IN  Xor32(h2, Shr32(h2, 16))

\* XxHash32::finish_32
XxhFinish(h) ==
    LET base == IF h.total_len >= XXH_STRIPE
                THEN Add32(Add32(Rotl32(h.v[1], 1), Rotl32(h.v[2], 7)),
                           Add32(Rotl32(h.v[3], 12), Rotl32(h.v[4], 18)))
                ELSE PRIME32_5
        withLen == Add32(base, <<h.total_len \div W16, h.total_len % W16>>)
    IN  XxhAvalanche(XxhTail(withLen, h.buffer, 1))

\* xxhio::xxhash32: one-off hash of a byte slice
xxhash32(buf) == XxhFinish(XxhWrite(XxhNew, buf))

\* ------------------------------------------------------------------------
\* Constants of the format (src/format.rs)
\* ------------------------------------------------------------------------
\* "NEWBSIMG", 0x474D4953_4257454E
NIMG_HDR_MAGIC == <<18253, 18771, 16983, 17742>>
\* "NIMGPART", 0x54524150_474d494e
NIMG_PHDR_MAGIC == <<21586, 16720, 18253, 18766>>
NIMG_CURRENT_VERSION == 3
NIMG_HDR_SIZE == 1024
NIMG_PHDR_SIZE == 32
NIMG_NAME_LEN == 128
NIMG_MAX_PARTS == 27

\* enum PartType, in discriminant order (Invalid = 0)
PartTypes == <<"Invalid", "BootImg", "BootTar", "Rootfs", "RootfsRw">>
PART_TYPE_LAST == "RootfsRw"
\* enum CompMode, in discriminant order (None = 0)
CompModes == <<"None", "Zstd", "LibArchive">>
COMP_MODE_LAST == "LibArchive"

\* `t as u8` for the repr(u8) enums
PartTypeAsU8(t) == (CHOOSE i \in 1..Len(PartTypes) : PartTypes[i] = t) - 1
CompModeAsU8(c) == (CHOOSE i \in 1..Len(CompModes) : CompModes[i] = c) - 1

Ok(v) == [ok |-> TRUE, val |-> v]
Err(e) == [ok |-> FALSE, err |-> e]

\* TryFrom<u8> for PartType
PartTypeTryFrom(val) ==
    IF val <= PartTypeAsU8(PART_TYPE_LAST)
    THEN Ok(PartTypes[val + 1])
    ELSE Err([kind |-> "BadType", val |-> val])

\* variant of from_u8_valid that lets the Invalid sentinel through
from_u8_any(val) == PartTypeTryFrom(val)

\* PartType::from_u8_valid
from_u8_valid(val) ==
    LET r == PartTypeTryFrom(val)
    IN  IF r.ok /\ r.val = "Invalid"
        THEN Err([kind |-> "BadType", val |-> PartTypeAsU8("Invalid")])
        ELSE r

\* variant of CompModeTryFrom whose bound leaves out the last mode
CompModeTryFromStrict(val) ==
    IF val < CompModeAsU8(COMP_MODE_LAST)
    THEN Ok(CompModes[val + 1])
    ELSE Err([kind |-> "BadComp", val |-> val])

\* TryFrom<u8> for CompMode
CompModeTryFrom(val) ==
    IF val <= CompModeAsU8(COMP_MODE_LAST)
    THEN Ok(CompModes[val + 1])
    ELSE Err([kind |-> "BadComp", val |-> val])

\* ------------------------------------------------------------------------
\* ReadHelper for Cursor<T> (src/util.rs).  A cursor is [buf, pos]; every
\* operation returns the value read and the new position.
\* ------------------------------------------------------------------------
Min(a, b) == IF a < b THEN a ELSE b

Cursor(buf) == [buf |-> buf, pos |-> 0]

Some(v) == [some |-> TRUE, val |-> v]
None == [some |-> FALSE]

\* Cursor::read_exact of n bytes: all n or an error
HasBytes(cur, n) == cur.pos + n <= Len(cur.buf)

read_byte(cur) ==
    IF HasBytes(cur, 1)
    THEN [val |-> Some(cur.buf[cur.pos + 1]), pos |-> cur.pos + 1]
    ELSE [val |-> None, pos |-> cur.pos]

read_u32_le(cur) ==
    IF HasBytes(cur, 4)
    THEN [val |-> Some(U32FromLE(cur.buf, cur.pos + 1)), pos |-> cur.pos + 4]
    ELSE [val |-> None, pos |-> cur.pos]

\* variant of read_u64_le whose failed read leaves the cursor at the end of
\* the buffer
read_u64_le_to_end(cur) ==
    IF HasBytes(cur, 8)
    THEN [val |-> Some(U64FromLE(cur.buf, cur.pos + 1)), pos |-> cur.pos + 8]
    ELSE [val |-> None, pos |-> Len(cur.buf)]

read_u64_le(cur) ==
    IF HasBytes(cur, 8)
    THEN [val |-> Some(U64FromLE(cur.buf, cur.pos + 1)), pos |-> cur.pos + 8]
    ELSE [val |-> None, pos |-> cur.pos]

\* the position moves by count whatever the slice returned
read_borrow(cur, count) ==
    [val |-> IF cur.pos + count <= Len(cur.buf)
             THEN SubSeq(cur.buf, cur.pos + 1, cur.pos + count)
             ELSE <<>>,
     pos |-> cur.pos + count]

\* seek(SeekFrom::Current(count)); returns the distance moved
skip(cur, count) == [val |-> count, pos |-> cur.pos + count]

\* Cursor::seek(SeekFrom::Start(n)) and Cursor::seek(SeekFrom::End(n)), n <= 0
SeekStart(cur, n) == [cur EXCEPT !.pos = n]
SeekEnd(cur, n) == [cur EXCEPT !.pos = Len(cur.buf) + n]

\* Cursor::seek: Start(n) sets the position to n; End(n) and Current(n) add
\* n to the length or to the position, and fail on a negative result
Seek(cur, whence, n) ==
    LET target == IF whence = "Start" THEN n
                  ELSE IF whence = "End" THEN Len(cur.buf) + n
                  ELSE cur.pos + n
    IN  IF target < 0
        THEN [pos |-> cur.pos, ret |-> Err([kind |-> "InvalidInput"])]
        ELSE [pos |-> target, ret |-> Ok(target)]

At(cur, pos) == [cur EXCEPT !.pos = pos]

\* ------------------------------------------------------------------------
\* String::from_utf8_lossy: every maximal invalid sequence becomes U+FFFD
\* ------------------------------------------------------------------------
REPLACEMENT == <<239, 191, 189>>

\* the byte at (1-based) index i, or 0 past the end
SafeGet(bytes, i) == IF i <= Len(bytes) THEN bytes[i] ELSE 0

IsCont(b) == b >= 128 /\ b <= 191

\* width of the UTF-8 sequence a first byte announces (0: not a first byte)
Utf8CharWidth(b) ==
    IF b < 128 THEN 1
    ELSE IF b >= 194 /\ b <= 223 THEN 2
    ELSE IF b >= 224 /\ b <= 239 THEN 3
    ELSE IF b >= 240 /\ b <= 244 THEN 4
    ELSE 0

\* whether second byte c may follow first byte b of a 3- or 4-byte sequence
SecondOk(b, c) ==
    CASE b = 224 -> c >= 160 /\ c <= 191
      [] b = 237 -> c >= 128 /\ c <= 159
      [] b = 240 -> c >= 144 /\ c <= 191
      [] b = 244 -> c >= 128 /\ c <= 143
      [] OTHER   -> IsCont(c)

\* the chunk at index i: [valid, len] where len bytes are consumed
Utf8Chunk(bytes, i) ==
    LET b == bytes[i]
        w == Utf8CharWidth(b)
    IN  IF w = 1 THEN [valid |-> TRUE, len |-> 1]
        ELSE IF w = 0 THEN [valid |-> FALSE, len |-> 1]
        ELSE IF w = 2 THEN
            IF IsCont(SafeGet(bytes, i + 1))
            THEN [valid |-> TRUE, len |-> 2] ELSE [valid |-> FALSE, len |-> 1]
        ELSE IF ~SecondOk(b, SafeGet(bytes, i + 1)) THEN [valid |-> FALSE, len |-> 1]
        ELSE IF ~IsCont(SafeGet(bytes, i + 2)) THEN [valid |-> FALSE, len |-> 2]
        ELSE IF w = 3 THEN [valid |-> TRUE, len |-> 3]
        ELSE IF ~IsCont(SafeGet(bytes, i + 3)) THEN [valid |-> FALSE, len |-> 3]
        ELSE [valid |-> TRUE, len |-> 4]

\* length of the run of ASCII bytes that starts at index i
AsciiRun(bytes, i) ==
    LET stops == {j \in i..Len(bytes) : bytes[j] >= 128}
    IN  IF stops = {} THEN Len(bytes) - i + 1
        ELSE (CHOOSE j \in stops : \A k \in stops : j <= k) - i

\* String::from_utf8_lossy: valid sequences are copied, every maximal
\* invalid sequence becomes one U+FFFD; a run of ASCII is copied at once
RECURSIVE LossyFrom(_, _, _)
LossyFrom(bytes, i, acc) ==
    IF (i > Len(bytes)) \/ (Len(acc) < 0) THEN acc
    ELSE IF bytes[i] < 128
    THEN LET n == AsciiRun(bytes, i)
         IN  LossyFrom(bytes, i + n, acc \o SubSeq(bytes, i, i + n - 1))
    ELSE LET c == Utf8Chunk(bytes, i)
         IN  LossyFrom(bytes, i + c.len,
                       acc \o (IF c.valid THEN SubSeq(bytes, i, i + c.len - 1)
                               ELSE REPLACEMENT))

from_utf8_lossy(bytes) == LossyFrom(bytes, 1, <<>>)

\* ------------------------------------------------------------------------
\* PartHeader (src/format.rs)
\* ------------------------------------------------------------------------
PartHeaderDefault ==
    [size |-> <<0, 0, 0, 0>>, offset |-> <<0, 0, 0, 0>>,
     ptype |-> "Invalid", comp |-> "None", xxh |-> <<0, 0>>]

\* variant of PartFromBytes that wants the two reserved bytes to be zero
PartFromBytesStrictReserved(buf) ==
    IF Len(buf) # NIMG_PHDR_SIZE
    THEN Err([kind |-> "BadSize", size |-> Len(buf)])
    ELSE
    LET c0     == Cursor(buf)
        magic  == read_u64_le(c0)
        size   == read_u64_le(At(c0, magic.pos))
        offset == read_u64_le(At(c0, size.pos))
        tbyte  == read_byte(At(c0, offset.pos))
        ptype  == from_u8_valid(tbyte.val.val)
        cbyte  == read_byte(At(c0, tbyte.pos))
        comp   == CompModeTryFrom(cbyte.val.val)
        skipd  == skip(At(c0, cbyte.pos), 2)
        xxh    == read_u32_le(At(c0, skipd.pos))
    IN  IF magic.val.val # NIMG_PHDR_MAGIC
        THEN Err([kind |-> "BadMagic", magic |-> magic.val.val])
        ELSE IF ~ptype.ok THEN ptype
        ELSE IF ~comp.ok THEN comp
        ELSE IF SubSeq(buf, cbyte.pos + 1, skipd.pos) # Zeros(2)
        THEN Err([kind |-> "BadMagic", magic |-> magic.val.val])
        ELSE Ok([size |-> size.val.val, offset |-> offset.val.val,
                 ptype |-> ptype.val, comp |-> comp.val, xxh |-> xxh.val.val])

\* variant of PartFromBytes that converts the compression byte before the
\* type byte
PartFromBytesCompFirst(buf) ==
    IF Len(buf) # NIMG_PHDR_SIZE
    THEN Err([kind |-> "BadSize", size |-> Len(buf)])
    ELSE
    LET c0     == Cursor(buf)
        magic  == read_u64_le(c0)
        size   == read_u64_le(At(c0, magic.pos))
        offset == read_u64_le(At(c0, size.pos))
        tbyte  == read_byte(At(c0, offset.pos))
        ptype  == from_u8_valid(tbyte.val.val)
        cbyte  == read_byte(At(c0, tbyte.pos))
        comp   == CompModeTryFrom(cbyte.val.val)
        skipd  == skip(At(c0, cbyte.pos), 2)
        xxh    == read_u32_le(At(c0, skipd.pos))
    IN  IF magic.val.val # NIMG_PHDR_MAGIC
        THEN Err([kind |-> "BadMagic", magic |-> magic.val.val])
        ELSE IF ~comp.ok THEN comp
        ELSE IF ~ptype.ok THEN ptype
        ELSE Ok([size |-> size.val.val, offset |-> offset.val.val,
                 ptype |-> ptype.val, comp |-> comp.val, xxh |-> xxh.val.val])

\* PartHeader::from_bytes
PartFromBytes(buf) ==
    IF Len(buf) # NIMG_PHDR_SIZE
    THEN Err([kind |-> "BadSize", size |-> Len(buf)])
    ELSE
    LET c0     == Cursor(buf)
        magic  == read_u64_le(c0)
        size   == read_u64_le(At(c0, magic.pos))
        offset == read_u64_le(At(c0, size.pos))
        tbyte  == read_byte(At(c0, offset.pos))
        ptype  == from_u8_valid(tbyte.val.val)
        cbyte  == read_byte(At(c0, tbyte.pos))
        comp   == CompModeTryFrom(cbyte.val.val)
        skipd  == skip(At(c0, cbyte.pos), 2)
        xxh    == read_u32_le(At(c0, skipd.pos))
    IN  IF magic.val.val # NIMG_PHDR_MAGIC
        THEN Err([kind |-> "BadMagic", magic |-> magic.val.val])
        ELSE IF ~ptype.ok THEN ptype
        ELSE IF ~comp.ok THEN comp
        ELSE Ok([size |-> size.val.val, offset |-> offset.val.val,
                 ptype |-> ptype.val, comp |-> comp.val, xxh |-> xxh.val.val])

\* ------------------------------------------------------------------------
\* Writers.  The sink is [data, cap]: a Vec<u8> (cap < 0, accepts
\* everything) or a Cursor over a fixed slice of cap bytes, whose write
\* takes what still fits and then returns Ok(0).
\* ------------------------------------------------------------------------
VecWriter == [data |-> <<>>, cap |-> -1]
SliceWriter(cap) == [data |-> <<>>, cap |-> cap]

\* Write::write of the sink
InnerWrite(w, bytes) ==
    LET room == IF w.cap < 0 THEN Len(bytes)
                ELSE Min(Len(bytes), w.cap - Len(w.data))
    IN  [w |-> [w EXCEPT !.data = @ \o SubSeq(bytes, 1, room)], count |-> room]

\* Write::write_all of the sink: Ok(0) from write is ErrorKind::WriteZero
\* (after a short write these sinks are full: the next write returns Ok(0))
InnerWriteAll(w, bytes) ==
    IF bytes = <<>> THEN [w |-> w, ok |-> TRUE]
    ELSE LET r == InnerWrite(w, bytes)
         IN  [w |-> r.w, ok |-> r.count = Len(bytes)]

\* variant of WriterWrite that hashes all of buf, whatever the inner
\* writer took
WriterWriteWhole(xxh, buf, ret) ==
    [xxh |-> IF ret.ok THEN XxhWrite(xxh, buf) ELSE xxh, ret |-> ret]

\* Write::write for xxhio::Writer around any inner writer: ret is what
\* self.inner.write(buf) returned, Ok(count) or Err(e)
WriterWrite(xxh, buf, ret) ==
    [xxh |-> IF ret.ok THEN XxhWrite(xxh, SubSeq(buf, 1, ret.val)) ELSE xxh,
     ret |-> ret]

\* Read::read for xxhio::Reader around any inner reader: ret is what
\* self.inner.read(buf) returned, buf the buffer as the inner reader left it
ReaderRead(xxh, buf, ret) ==
    [xxh |-> IF ret.ok THEN XxhWrite(xxh, SubSeq(buf, 1, ret.val)) ELSE xxh,
     ret |-> ret]

\* xxhio::Writer::new
XxhWriterNew(inner) == [inner |-> inner, xxh |-> XxhNew]

\* Write::write for xxhio::Writer
XxhWriterWrite(xw, bytes) ==
    LET r == InnerWrite(xw.inner, bytes)
    IN  [w |-> [inner |-> r.w, xxh |-> XxhWrite(xw.xxh, SubSeq(bytes, 1, r.count))],
         count |-> r.count]

\* Write::write_all through xxhio::Writer.  After a short write the sinks
\* above are full, so the loop's next write returns Ok(0): WriteZero.
XxhWriteAll(xw, bytes) ==
    IF bytes = <<>> THEN [w |-> xw, ok |-> TRUE]
    ELSE LET r == XxhWriterWrite(xw, bytes)
         IN  [w |-> r.w, ok |-> r.count = Len(bytes)]

\* `writer.write_all(bytes)?;` after the statements that gave r: skipped
\* when one of them returned early with its error
Then(r, bytes) == IF ~r.ok THEN r ELSE XxhWriteAll(r.w, bytes)

Started(xw) == [w |-> xw, ok |-> TRUE]

\* variant of PartWriteTo that writes the offset before the size
PartWriteToSwapped(part, xw) ==
    Then(Then(Then(Then(Then(Then(Then(Started(xw),
        U64ToLE(NIMG_PHDR_MAGIC)),
        U64ToLE(part.offset)),
        U64ToLE(part.size)),
        <<PartTypeAsU8(part.ptype)>>),
        <<CompModeAsU8(part.comp)>>),
        Zeros(2)),
        U32ToLE(part.xxh))

\* PartHeader::write_to
PartWriteTo(part, xw) ==
    Then(Then(Then(Then(Then(Then(Then(Started(xw),
        U64ToLE(NIMG_PHDR_MAGIC)),             \* write_u64_le(NIMG_PHDR_MAGIC)
        U64ToLE(part.size)),                   \* write_u64_le(self.size)
        U64ToLE(part.offset)),                 \* write_u64_le(self.offset)
        <<PartTypeAsU8(part.ptype)>>),         \* write_byte(self.ptype as u8)
        <<CompModeAsU8(part.comp)>>),          \* write_byte(self.comp as u8)
        Zeros(2)),                             \* write_zeros(2)
        U32ToLE(part.xxh))                     \* write_u32_le(self.xxh)

\* ------------------------------------------------------------------------
\* ImageHeader (src/format.rs)
\* ------------------------------------------------------------------------
\* ImageHeader::new
ImageHeaderNew(name) ==
    [version |-> NIMG_CURRENT_VERSION, name |-> name, parts |-> <<>>]

\* first index (0-based) i >= from of a part of type Invalid, or -1
RECURSIVE FirstInvalidPart(_, _)
FirstInvalidPart(parts, i) ==
    IF i >= Len(parts) THEN -1
    ELSE IF parts[i + 1].ptype = "Invalid" THEN i
    ELSE FirstInvalidPart(parts, i + 1)

\* variant of validate whose part-count bound is off by one
validate_off_by_one(h) ==
    IF h.version # NIMG_CURRENT_VERSION
    THEN Err([kind |-> "UnsupportedVersion", version |-> h.version])
    ELSE IF Len(h.name) > NIMG_NAME_LEN
    THEN Err([kind |-> "NameTooLong", len |-> Len(h.name)])
    ELSE IF Len(h.parts) >= NIMG_MAX_PARTS
    THEN Err([kind |-> "TooManyParts", count |-> Len(h.parts)])
    ELSE LET bad == FirstInvalidPart(h.parts, 0)
         IN  IF bad >= 0
             THEN Err([kind |-> "InvalidPart", index |-> bad,
                       err |-> [kind |-> "BadType", val |-> PartTypeAsU8("Invalid")]])
             ELSE Ok(<<>>)

\* variant of validate that checks the part count before the name
validate_count_first(h) ==
    IF h.version # NIMG_CURRENT_VERSION
    THEN Err([kind |-> "UnsupportedVersion", version |-> h.version])
    ELSE IF Len(h.parts) > NIMG_MAX_PARTS
    THEN Err([kind |-> "TooManyParts", count |-> Len(h.parts)])
    ELSE IF Len(h.name) > NIMG_NAME_LEN
    THEN Err([kind |-> "NameTooLong", len |-> Len(h.name)])
    ELSE LET bad == FirstInvalidPart(h.parts, 0)
         IN  IF bad >= 0
             THEN Err([kind |-> "InvalidPart", index |-> bad,
                       err |-> [kind |-> "BadType", val |-> PartTypeAsU8("Invalid")]])
             ELSE Ok(<<>>)

\* ImageHeader::validate
validate(h) ==
    IF h.version # NIMG_CURRENT_VERSION
    THEN Err([kind |-> "UnsupportedVersion", version |-> h.version])
    ELSE IF Len(h.name) > NIMG_NAME_LEN
    THEN Err([kind |-> "NameTooLong", len |-> Len(h.name)])
    ELSE IF Len(h.parts) > NIMG_MAX_PARTS
    THEN Err([kind |-> "TooManyParts", count |-> Len(h.parts)])
    ELSE LET bad == FirstInvalidPart(h.parts, 0)
         IN  IF bad >= 0
             THEN Err([kind |-> "InvalidPart", index |-> bad,
                       err |-> [kind |-> "BadType", val |-> PartTypeAsU8("Invalid")]])
             ELSE Ok(<<>>)

\* the `for part in self.parts.iter() { part.write_to(&mut writer)?; }` loop
RECURSIVE WriteParts(_, _, _)
WriteParts(parts, r, i) ==
    IF (i > Len(parts)) \/ ~r.ok THEN r
    ELSE WriteParts(parts, PartWriteTo(parts[i], r.w), i + 1)

WriteZero == [kind |-> "WriteZero"]

\* variant of WriteFields that takes the hash before the last 12 reserved
\* bytes are written
WriteFieldsEarlyHash(h, writer) ==
    LET r1 == Then(Then(Then(Then(Then(Then(Started(XxhWriterNew(writer)),
                      U64ToLE(NIMG_HDR_MAGIC)),
                      <<h.version>>),
                      <<Len(h.parts)>>),
                      Zeros(6)),
                      h.name),
                      Zeros(NIMG_NAME_LEN - Len(h.name)))
        r2 == WriteParts(h.parts, r1, 1)
        r3 == Then(r2, Zeros(NIMG_PHDR_SIZE * (NIMG_MAX_PARTS - Len(h.parts))))
        xxh == XxhFinish(r3.w.xxh)
        r4 == Then(r3, Zeros(12))
        r5 == InnerWriteAll(r4.w.inner, U32ToLE(xxh))
    IN  IF ~r4.ok THEN [w |-> r4.w.inner, res |-> Err(WriteZero)]
        ELSE IF ~r5.ok THEN [w |-> r5.w, res |-> Err(WriteZero)]
        ELSE [w |-> r5.w, res |-> Ok(<<>>)]

\* ImageHeader::write_to after the validation: the sink is wrapped in a
\* hashing writer, the fields are written, the hash is appended
WriteFields(h, writer) ==
    LET r1 == Then(Then(Then(Then(Then(Then(Started(XxhWriterNew(writer)),
                      U64ToLE(NIMG_HDR_MAGIC)),               \* write_u64_le
                      <<h.version>>),                         \* write_byte
                      <<Len(h.parts)>>),                      \* write_byte
                      Zeros(6)),                              \* write_zeros(6)
                      h.name),                                \* write_all
                      Zeros(NIMG_NAME_LEN - Len(h.name)))     \* write_zeros
        r2 == WriteParts(h.parts, r1, 1)
        r3 == Then(Then(r2,
                  Zeros(NIMG_PHDR_SIZE * (NIMG_MAX_PARTS - Len(h.parts)))),
                  Zeros(12))
        xxh == XxhFinish(r3.w.xxh)
        r4 == InnerWriteAll(r3.w.inner, U32ToLE(xxh))
    IN  IF ~r3.ok THEN [w |-> r3.w.inner, res |-> Err(WriteZero)]
        ELSE IF ~r4.ok THEN [w |-> r4.w, res |-> Err(WriteZero)]
        ELSE [w |-> r4.w, res |-> Ok(<<>>)]

\* variant of write_to that writes the magic before it validates
write_to_late_validate(h, writer) ==
    LET v == validate(h)
    IN  IF ~v.ok
        THEN [w |-> InnerWriteAll(writer, U64ToLE(NIMG_HDR_MAGIC)).w,
              res |-> Err([kind |-> "Other", source |-> v.err])]
        ELSE WriteFields(h, writer)

\* ImageHeader::write_to; returns the sink and the io::Result
write_to(h, writer) ==
    LET v == validate(h)
    IN  IF ~v.ok THEN [w |-> writer, res |-> Err([kind |-> "Other", source |-> v.err])]
        ELSE WriteFields(h, writer)

\* variant of NullPos that finds the last NUL byte instead of the first
NullPosLast(name) ==
    LET nuls == {j \in 1..Len(name) : name[j] = 0}
    IN  IF nuls = {} THEN Len(name)
        ELSE (CHOOSE j \in nuls : \A k \in nuls : j >= k) - 1

\* name.iter().position(|c| *c == b'\0').unwrap_or(name.len())
NullPos(name) ==
    LET nuls == {j \in 1..Len(name) : name[j] = 0}
    IN  IF nuls = {} THEN Len(name)
        ELSE (CHOOSE j \in nuls : \A k \in nuls : j <= k) - 1

\* variant of ParseParts that drops a rejected slot and goes on
RECURSIVE ParsePartsLenient(_, _, _, _)
ParsePartsLenient(cur, pidx, num_parts, parts) ==
    IF pidx >= num_parts THEN Ok(parts)
    ELSE LET slot == read_borrow(cur, NIMG_PHDR_SIZE)
             phdr == PartFromBytes(slot.val)
         IN  ParsePartsLenient(At(cur, slot.pos), pidx + 1, num_parts,
                               IF phdr.ok THEN Append(parts, phdr.val) ELSE parts)

\* the `for pidx in 0..num_parts` loop of ImageHeader::from_bytes
RECURSIVE ParseParts(_, _, _, _)
ParseParts(cur, pidx, num_parts, parts) ==
    IF pidx >= num_parts THEN Ok(parts)
    ELSE LET slot == read_borrow(cur, NIMG_PHDR_SIZE)
             phdr == PartFromBytes(slot.val)
         IN  IF ~phdr.ok
             THEN Err([kind |-> "InvalidPart", index |-> pidx, err |-> phdr.err])
             ELSE ParseParts(At(cur, slot.pos), pidx + 1, num_parts,
                             Append(parts, phdr.val))

\* ImageHeader::from_bytes, from the name to the end: the image-level
\* checks have passed
ParseBody(buf) ==
    LET reader    == SeekStart(Cursor(buf), 8)
        version   == read_byte(reader)
        num_parts == read_byte(At(reader, version.pos))
        skipd     == skip(At(reader, num_parts.pos), 6)
        name      == read_borrow(At(reader, skipd.pos), NIMG_NAME_LEN)
        nullpos   == NullPos(name.val)
        parts     == ParseParts(At(reader, name.pos), 0, num_parts.val.val, <<>>)
    IN  IF ~parts.ok THEN parts
        ELSE Ok([version |-> version.val.val,
                 name |-> from_utf8_lossy(SubSeq(name.val, 1, nullpos)),
                 parts |-> parts.val])

\* variant of CheckNumParts without the limit on the part count
CheckNumPartsNoLimit(buf) == ParseBody(buf)

\* ImageHeader::from_bytes, from the part count on
CheckNumParts(buf) ==
    LET num_parts == read_byte(At(Cursor(buf), 9))
    IN  IF num_parts.val.val > NIMG_MAX_PARTS
        THEN Err([kind |-> "TooManyParts", count |-> num_parts.val.val])
        ELSE ParseBody(buf)

\* ImageHeader::from_bytes, from the version on
CheckVersion(buf) ==
    LET version == read_byte(SeekStart(Cursor(buf), 8))
    IN  IF version.val.val # NIMG_CURRENT_VERSION
        THEN Err([kind |-> "UnsupportedVersion", version |-> version.val.val])
        ELSE CheckNumParts(buf)

\* variant of CheckHash that checks the version before the hash
CheckHashAfterVersion(buf) ==
    LET version      == read_byte(SeekStart(Cursor(buf), 8))
        expected_xxh == read_u32_le(SeekEnd(Cursor(buf), -4))
        actual_xxh   == xxhash32(SubSeq(buf, 1, NIMG_HDR_SIZE - 4))
    IN  IF version.val.val # NIMG_CURRENT_VERSION
        THEN Err([kind |-> "UnsupportedVersion", version |-> version.val.val])
        ELSE IF expected_xxh.val.val # actual_xxh
        THEN Err([kind |-> "BadHash", expected |-> expected_xxh.val.val,
                  actual |-> actual_xxh])
        ELSE CheckNumParts(buf)

\* ImageHeader::from_bytes, from the hash validation on
CheckHash(buf) ==
    LET expected_xxh == read_u32_le(SeekEnd(Cursor(buf), -4))
        actual_xxh   == xxhash32(SubSeq(buf, 1, NIMG_HDR_SIZE - 4))
    IN  IF expected_xxh.val.val # actual_xxh
        THEN Err([kind |-> "BadHash", expected |-> expected_xxh.val.val,
                  actual |-> actual_xxh])
        ELSE CheckVersion(buf)

\* variant of CheckMagic that checks the hash before the magic
CheckMagicAfterHash(buf) ==
    LET magic        == read_u64_le(Cursor(buf))
        expected_xxh == read_u32_le(SeekEnd(Cursor(buf), -4))
        actual_xxh   == xxhash32(SubSeq(buf, 1, NIMG_HDR_SIZE - 4))
    IN  IF expected_xxh.val.val # actual_xxh
        THEN Err([kind |-> "BadHash", expected |-> expected_xxh.val.val,
                  actual |-> actual_xxh])
        ELSE IF magic.val.val # NIMG_HDR_MAGIC
        THEN Err([kind |-> "BadMagic", magic |-> magic.val.val])
        ELSE CheckVersion(buf)

\* ImageHeader::from_bytes, from the magic on
CheckMagic(buf) ==
    LET magic == read_u64_le(Cursor(buf))
    IN  IF magic.val.val # NIMG_HDR_MAGIC
        THEN Err([kind |-> "BadMagic", magic |-> magic.val.val])
        ELSE CheckHash(buf)

\* variant of from_bytes that rejects only buffers that are too short
from_bytes_at_least(buf) ==
    IF Len(buf) < NIMG_HDR_SIZE
    THEN Err([kind |-> "BadSize", size |-> Len(buf)])
    ELSE CheckMagic(buf)

\* ImageHeader::from_bytes
from_bytes(buf) ==
    IF Len(buf) # NIMG_HDR_SIZE
    THEN Err([kind |-> "BadSize", size |-> Len(buf)])
    ELSE CheckMagic(buf)

\* the slot reads of the `for pidx in 0..num_parts` loop, up to the first
\* slot that PartHeader::from_bytes rejects: where each read starts and how
\* many bytes it returns
RECURSIVE SlotReads(_, _, _)
SlotReads(cur, pidx, num_parts) ==
    IF pidx >= num_parts THEN <<>>
    ELSE LET slot == read_borrow(cur, NIMG_PHDR_SIZE)
         IN  <<[at |-> cur.pos, len |-> Len(slot.val)]>>
                 \o (IF ~PartFromBytes(slot.val).ok THEN <<>>
                     ELSE SlotReads(At(cur, slot.pos), pidx + 1, num_parts))

\* what ImageHeader::from_bytes reads of a buffer of NIMG_HDR_SIZE bytes
\* before it returns:
\*   unwraps   for every .unwrap() executed, whether its value was Some / Ok
\*   name      the length of the slice read for the name, -1 if not read
\*   slots     the slot reads
FromBytesReads(b) ==
    LET reader       == Cursor(b)
        magic        == read_u64_le(reader)
        seekend      == Seek(At(reader, magic.pos), "End", -4)
        expected_xxh == read_u32_le(At(reader, seekend.pos))
        actual_xxh   == xxhash32(SubSeq(b, 1, NIMG_HDR_SIZE - 4))
        seekstart    == Seek(At(reader, expected_xxh.pos), "Start", 8)
        version      == read_byte(At(reader, seekstart.pos))
        num_parts    == read_byte(At(reader, version.pos))
        skipd        == skip(At(reader, num_parts.pos), 6)
        name         == read_borrow(At(reader, skipd.pos), NIMG_NAME_LEN)
        atHash       == magic.val.some /\ magic.val.val = NIMG_HDR_MAGIC
        atVersion    == atHash /\ expected_xxh.val.some
                               /\ expected_xxh.val.val = actual_xxh
        atCount      == atVersion /\ version.val.some
                                  /\ version.val.val = NIMG_CURRENT_VERSION
        atName       == atCount /\ num_parts.val.some
                                /\ num_parts.val.val <= NIMG_MAX_PARTS
    IN  [unwraps |-> <<magic.val.some>>
                     \o (IF atHash THEN <<seekend.ret.ok, expected_xxh.val.some>>
                         ELSE <<>>)
                     \o (IF atVersion THEN <<seekstart.ret.ok, version.val.some>>
                         ELSE <<>>)
                     \o (IF atCount THEN <<num_parts.val.some>> ELSE <<>>),
         name |-> IF atName THEN Len(name.val) ELSE -1,
         slots |-> IF atName
                   THEN SlotReads(At(reader, name.pos), 0, num_parts.val.val)
                   ELSE <<>>]

\* Error::source for ImageValidError (src/errors.rs)
ErrorSource(e) == IF e.kind = "InvalidPart" THEN Some(e.err) ELSE None


\* ------------------------------------------------------------------------
\* Inputs
\* ------------------------------------------------------------------------
\* number of parts whose type is chosen freely when a header is built
MaxFreeParts == 2

Rep(b, n) == [i \in 1..n |-> b]

\* "2020-05-27-raspios-buster-lite-armhf" (tests::good_header_obj)
NAME_TEST ==
    <<50, 48, 50, 48, 45, 48, 53, 45, 50, 55, 45, 114, 97, 115, 112, 105, 111, 115,
      45, 98, 117, 115, 116, 101, 114, 45, 108, 105, 116, 101, 45, 97, 114, 109,
      104, 102>>

\* image names: empty, the test's, "a\0b", and names of 128 and 129 bytes
\* around NIMG_NAME_LEN, in ASCII or starting with the two bytes of U+00E9
Names ==
    { <<>>, NAME_TEST, <<97, 0, 98>>,
      Rep(65, NIMG_NAME_LEN - 1), Rep(65, NIMG_NAME_LEN), Rep(65, NIMG_NAME_LEN + 1),
      <<195, 169>> \o Rep(65, NIMG_NAME_LEN - 2),
      <<195, 169>> \o Rep(65, NIMG_NAME_LEN - 1) }

Versions == {NIMG_CURRENT_VERSION - 1, NIMG_CURRENT_VERSION + 1}

\* the type and compression a part at index k gets unless it is Invalid
TypeFor(k) == <<"BootImg", "Rootfs", "RootfsRw", "BootTar">>[(k % 4) + 1]
CompFor(k) == <<"Zstd", "None", "LibArchive">>[(k % 3) + 1]

\* the part pushed at index k: the two parts of tests::good_header_obj,
\* then parts whose every field depends on k
NewPart(k, ptype) ==
    IF k = 0 THEN [size |-> <<0, 0, 475, 59448>>, offset |-> <<0, 0, 0, 0>>,
                   ptype |-> ptype, comp |-> CompFor(k), xxh |-> <<59211, 34416>>]
    ELSE IF k = 1 THEN [size |-> <<0, 0, 5155, 20480>>, offset |-> <<0, 0, 475, 59456>>,
                   ptype |-> ptype, comp |-> CompFor(k), xxh |-> <<46724, 26689>>]
    ELSE [size |-> <<k, 258, 772 + k, 1286>>, offset |-> <<257 * k, k, 3, 1024 + k>>,
          ptype |-> ptype, comp |-> CompFor(k), xxh |-> <<4096 + k, 8192 + k>>]

\* sinks handed to write_to: one that accepts every byte (cmd_create's
\* output), the test's 1024-byte slice, and slices
\* that are full before the checksum or inside the name
Writers == {VecWriter, SliceWriter(NIMG_HDR_SIZE), SliceWriter(NIMG_HDR_SIZE - 4),
            SliceWriter(150)}

\* one corruption of an input buffer: bytes [at, at + len) set to val
\* (0-based offsets), or the buffer cut or extended by one byte
EDITS ==
    << [kind |-> "set", at |-> 0, len |-> 1, val |-> 0],        \* magic
       [kind |-> "set", at |-> 8, len |-> 1, val |-> 4],        \* version
       [kind |-> "set", at |-> 9, len |-> 1, val |-> 28],       \* part count
       [kind |-> "set", at |-> 9, len |-> 1, val |-> 2],
       [kind |-> "set", at |-> 10, len |-> 6, val |-> 255],     \* reserved
       [kind |-> "set", at |-> 16, len |-> 1, val |-> 0],       \* name
       [kind |-> "set", at |-> 17, len |-> 1, val |-> 255],
       [kind |-> "set", at |-> 18, len |-> 1, val |-> 66],
       [kind |-> "set", at |-> 143, len |-> 1, val |-> 255],
       [kind |-> "set", at |-> 144, len |-> 1, val |-> 0],      \* slot 0 magic
       [kind |-> "set", at |-> 176, len |-> 1, val |-> 0],      \* slot 1 magic
       [kind |-> "set", at |-> 144, len |-> 64, val |-> 0],     \* slots 0 and 1
       [kind |-> "set", at |-> 168, len |-> 1, val |-> 0],      \* slot 0 type
       [kind |-> "set", at |-> 168, len |-> 1, val |-> 5],
       [kind |-> "set", at |-> 169, len |-> 1, val |-> 3],      \* slot 0 comp
       [kind |-> "set", at |-> 168, len |-> 2, val |-> 9],
       [kind |-> "set", at |-> 170, len |-> 2, val |-> 255],    \* slot 0 reserved
       [kind |-> "set", at |-> 976, len |-> 32, val |-> 255],   \* slot 26
       [kind |-> "set", at |-> 1008, len |-> 12, val |-> 255],  \* reserved
       [kind |-> "set", at |-> 1020, len |-> 4, val |-> 0],     \* checksum
       [kind |-> "cut"],
       [kind |-> "extend"] >>

ApplyEdit(buf, e) ==
    CASE e.kind = "set" ->
            [i \in 1..Len(buf) |->
                IF i > e.at /\ i <= e.at + e.len THEN e.val ELSE buf[i]]
      [] e.kind = "cut" -> SubSeq(buf, 1, Len(buf) - 1)
      [] e.kind = "extend" -> Append(buf, 0)

\* ------------------------------------------------------------------------
\* The state machine: a header is built (new, push, version), validated or
\* serialised into a sink; the bytes written are then read back, possibly
\* corrupted once and re-checksummed, and parsed.
\* ------------------------------------------------------------------------
VARIABLES
    pc,      \* "build", "validated", "written", "input", "parsed"
    header,  \* the ImageHeader in memory
    vres,    \* result of validate (pc = "validated")
    out,     \* the sink write_to wrote into
    wres,    \* result of write_to (pc beyond "build")
    buf,     \* the bytes handed to from_bytes
    edit,    \* index into EDITS of the corruption applied to buf, or 0
    fixed,   \* whether the trailing checksum of buf was recomputed
    pres     \* result of from_bytes (pc = "parsed")

vars == <<pc, header, vres, out, wres, buf, edit, fixed, pres>>

\* A part header on its own: built, serialised or given as raw bytes, parsed
VARIABLES
    ppc,     \* "off", "build", "written", "raw", "reparsed", "parsed"
    pheader, \* the PartHeader in memory
    pbytes,  \* the bytes written by, or handed to, the part codec
    pwr,     \* the sink PartHeader::write_to wrote into, and whether it returned Ok
    ppres    \* result of PartHeader::from_bytes

partVars == <<ppc, pheader, pbytes, pwr, ppres>>

\* A checksum wrapper (xxhio::Reader or xxhio::Writer) around an inner
\* stream that moves the bytes of a buffer, in calls that may fall short or
\* fail.  hw is a record:
\*   kind   "off", "reader", "writer"
\*   data   the bytes to move
\*   pos    how many of them the inner stream has moved
\*   moved  the bytes the inner stream has moved, call after call
\*   xxh    the wrapper's XxHash32
\*   ret    what the last read or write call returned
\*   inner  what the inner stream answered in that call
\*   prev   the wrapper's XxHash32 before that call
\*   calls  number of calls made
\*   full   whether every call so far moved all it was asked to
VARIABLE hw

hashVars == <<hw>>

\* A Cursor over a buffer, driven through ReadHelper and Seek.  rd is a
\* record:
\*   on      whether the cursor exists
\*   buf     the buffer
\*   pos     Cursor::position()
\*   op      the last call, "new" at first
\*   arg     its count or offset
\*   ret     what it returned
\*   prev    the position before it
\*   failed  whether the call before it was a read that returned None
VARIABLE rd

readVars == <<rd>>

\* A consumer that streams the payloads of an image: check_image (mknImage
\* check) or do_swdl.  sw is a record:
\*   consumer  "off", "check", "swdl"
\*   accepted  whether ImageHeader::from_bytes returned Ok
\*   parts     header.parts
\*   left      bytes of input left after the header
\*   i         index of the part the loop is at
\*   pc        "loop" before the part's offset is looked at, "payload" before
\*             its payload is read, "done" after the return
\*   cur       current_offset
\*   padded    per part, the padding bytes read before it, -1 when none was
\*             asked for yet
\*   payload   per part, the payload bytes read
\*   result    what the consumer returned
VARIABLE sw

streamVars == <<sw>>

\* mknImage create: cmd_create with its arguments, the part files, the
\* output file and the header it builds.  cr is a record, described with
\* CreateStart below.
VARIABLE cr

createVars == <<cr>>

\* The payload of one part going through read_exact_crc (mknImage check) or
\* through the copy loop of program_raw (swdl).  pl is a record, described
\* with PayloadStart below.
VARIABLE pl

payloadVars == <<pl>>

\* swdl's kernel command line handling (flashbanks.rs).  fb is a record,
\* described with BankStart below.
VARIABLE fb

bankVars == <<fb>>

\* the variables the image-header run leaves alone
nonCodec == <<partVars, hashVars, readVars, streamVars, createVars, payloadVars, bankVars>>
\* the variables the part-header run leaves alone
nonPart == <<vars, hashVars, readVars, streamVars, createVars, payloadVars, bankVars>>
\* the variables the checksum-wrapper run leaves alone
nonHash == <<vars, partVars, readVars, streamVars, createVars, payloadVars, bankVars>>
\* the variables the cursor run leaves alone
nonRead == <<vars, partVars, hashVars, streamVars, createVars, payloadVars, bankVars>>
\* the variables the streaming run leaves alone
nonStream == <<vars, partVars, hashVars, readVars, createVars, payloadVars, bankVars>>
\* the variables the create run leaves alone
nonCreate == <<vars, partVars, hashVars, readVars, streamVars, payloadVars, bankVars>>
\* the variables the payload run leaves alone
nonPayload == <<vars, partVars, hashVars, readVars, streamVars, createVars, bankVars>>
\* the variables the command-line run leaves alone
nonBank == <<vars, partVars, hashVars, readVars, streamVars, createVars, payloadVars>>

\* no cmd_create, no payload check, no command line at hand
CreateIdle == cr = [pc |-> "off"]
PayloadIdle == pl = [pc |-> "off"]
BankIdle == fb = [pc |-> "off"]
OthersIdle == CreateIdle /\ PayloadIdle /\ BankIdle

\* the consumer after `let header = ImageHeader::from_bytes(&header_bytes)?;`
\* returned p, with len bytes of input behind the header
StreamStart(consumer, p, len) ==
    LET parts == IF p.ok THEN p.val.parts ELSE <<>>
    IN  [consumer |-> consumer, accepted |-> p.ok, parts |-> parts, left |-> len,
         i |-> 0, pc |-> IF p.ok THEN "loop" ELSE "done", cur |-> 0,
         padded |-> [k \in 1..Len(parts) |-> -1],
         payload |-> [k \in 1..Len(parts) |-> 0],
         result |-> IF p.ok THEN None ELSE p]

StreamIdle == sw = StreamStart("off", Err(<<>>), 0)

\* Cursor::new
ReadStart(on, b) ==
    [on |-> on, buf |-> b, pos |-> 0, op |-> "new", arg |-> 0, ret |-> None,
     prev |-> 0, failed |-> FALSE]

ReadIdle == rd = ReadStart(FALSE, <<>>)

\* the wrapper as Reader::new / Writer::new leaves it, nothing moved yet
HashStart(kind, data) ==
    [kind |-> kind, data |-> data, pos |-> 0, moved |-> <<>>, xxh |-> XxhNew,
     ret |-> None, inner |-> None, prev |-> XxhNew, calls |-> 0, full |-> TRUE]

HashIdle == hw = HashStart("off", <<>>)

PartIdle ==
    /\ ppc = "off"
    /\ pheader = PartHeaderDefault
    /\ pbytes = <<>>
    /\ pwr = [sink |-> VecWriter, ok |-> FALSE]
    /\ ppres = None

CodecIdle ==
    /\ pc = "off"
    /\ header = ImageHeaderNew(<<>>)
    /\ vres = None
    /\ out = VecWriter
    /\ wres = None
    /\ buf = <<>>
    /\ edit = 0
    /\ fixed = FALSE
    /\ pres = None

Init ==
    /\ pc = "build"
    /\ header \in {ImageHeaderNew(name) : name \in Names}
    /\ vres = None
    /\ out = VecWriter
    /\ wres = None
    /\ buf = <<>>
    /\ edit = 0
    /\ fixed = FALSE
    /\ pres = None
    /\ PartIdle
    /\ HashIdle
    /\ ReadIdle
    /\ StreamIdle
    /\ OthersIdle

\* header.parts.push(part), as add_part does
AddPart ==
    /\ pc = "build"
    /\ Len(header.parts) < MaxFreeParts
    /\ \E t \in {"Invalid", TypeFor(Len(header.parts))} :
          header' = [header EXCEPT !.parts = Append(@, NewPart(Len(@), t))]
    /\ UNCHANGED <<pc, vres, out, wres, buf, edit, fixed, pres>>
    /\ UNCHANGED nonCodec

\* the rest of the parts of an image of n parts, pushed in a loop
FillParts ==
    /\ pc = "build"
    /\ \E n \in {NIMG_MAX_PARTS, NIMG_MAX_PARTS + 1} :
          /\ Len(header.parts) <= MaxFreeParts
          /\ header' = [header EXCEPT !.parts =
                 [k \in 1..n |-> IF k <= Len(@) THEN @[k]
                                 ELSE NewPart(k - 1, TypeFor(k - 1))]]
    /\ UNCHANGED <<pc, vres, out, wres, buf, edit, fixed, pres>>
    /\ UNCHANGED nonCodec

\* header.version = v (the field is public)
SetVersion ==
    /\ pc = "build"
    /\ header.version = NIMG_CURRENT_VERSION
    /\ \E v \in Versions : header' = [header EXCEPT !.version = v]
    /\ UNCHANGED <<pc, vres, out, wres, buf, edit, fixed, pres>>
    /\ UNCHANGED nonCodec

\* header.validate()
Validate ==
    /\ pc = "build"
    /\ pc' = "validated"
    /\ vres' = validate(header)
    /\ UNCHANGED <<header, out, wres, buf, edit, fixed, pres>>
    /\ UNCHANGED nonCodec

\* header.write_to(writer)
WriteTo ==
    /\ pc = "build"
    /\ \E writer \in Writers :
          \E r \in {write_to(header, writer)} :
              /\ out' = r.w
              /\ wres' = r.res
    /\ pc' = "written"
    /\ UNCHANGED <<header, vres, buf, edit, fixed, pres>>
    /\ UNCHANGED nonCodec

\* the bytes written become the input of a reader; the sink is dropped
Load ==
    /\ pc = "written"
    /\ pc' = "input"
    /\ buf' = out.data
    /\ out' = VecWriter
    /\ UNCHANGED <<header, vres, wres, edit, fixed, pres>>
    /\ UNCHANGED nonCodec

\* the input is corrupted: one edit that changes it
Edit ==
    /\ pc = "input"
    /\ edit = 0
    /\ ~fixed
    /\ \E k \in 1..Len(EDITS) :
          /\ EDITS[k].kind = "set" => EDITS[k].at + EDITS[k].len <= Len(buf)
          /\ EDITS[k].kind = "cut" => Len(buf) > 0
          /\ buf' = ApplyEdit(buf, EDITS[k])
          /\ buf' # buf
          /\ edit' = k
    /\ UNCHANGED <<pc, header, vres, out, wres, fixed, pres>>
    /\ UNCHANGED nonCodec

\* the trailing checksum is recomputed over the bytes before it (as the
\* test parse_image_header does after breaking a part magic)
FixHash ==
    /\ pc = "input"
    /\ ~fixed
    /\ edit # 0
    /\ Len(buf) = NIMG_HDR_SIZE
    /\ buf' = SubSeq(buf, 1, NIMG_HDR_SIZE - 4)
                \o U32ToLE(xxhash32(SubSeq(buf, 1, NIMG_HDR_SIZE - 4)))
    /\ fixed' = TRUE
    /\ UNCHANGED <<pc, header, vres, out, wres, edit, pres>>
    /\ UNCHANGED nonCodec

\* ImageHeader::from_bytes(&buf)
FromBytes ==
    /\ pc = "input"
    /\ pc' = "parsed"
    /\ pres' = from_bytes(buf)
    /\ UNCHANGED <<header, vres, out, wres, buf, edit, fixed>>
    /\ UNCHANGED nonCodec

Next ==
    \/ AddPart
    \/ FillParts
    \/ SetVersion
    \/ Validate
    \/ WriteTo
    \/ Load
    \/ Edit
    \/ FixHash
    \/ FromBytes

Spec == Init /\ [][Next]_vars


\* ------------------------------------------------------------------------
\* The part-header run: a PartHeader is serialised, or 32 or so raw bytes
\* are put together, and the bytes are parsed.
\* ------------------------------------------------------------------------
\* u64 values of the size and offset fields, u32 values of the checksum
PartSizes == {<<0, 0, 0, 0>>, <<0, 0, 475, 59448>>, <<65535, 65535, 65535, 65535>>}
PartHashes == {<<0, 0>>, <<59211, 34416>>, <<65535, 65535>>}

\* every PartHeader over these field values
PartHeaders ==
    [size : PartSizes, offset : PartSizes,
     ptype : {PartTypes[i] : i \in 1..Len(PartTypes)},
     comp : {CompModes[i] : i \in 1..Len(CompModes)},
     xxh : PartHashes]

\* sinks handed to PartHeader::write_to
PartWriters == {VecWriter, SliceWriter(NIMG_PHDR_SIZE), SliceWriter(20)}

\* pairs of a type byte and a compression byte: every type byte with a
\* valid and an invalid compression byte, every compression byte with a
\* valid type byte, the Invalid sentinel and an unknown type byte
TypeCompBytes ==
    ((0..255) \X {0, 3}) \cup ({0, 1, 5} \X (0..255))

\* a raw part header: first magic byte m, type byte tc[1], compression byte
\* tc[2], reserved bytes r, the other fields as in h
RawPart(h, m, tc, r) ==
    <<m>> \o SubSeq(U64ToLE(NIMG_PHDR_MAGIC), 2, 8)
        \o U64ToLE(h.size) \o U64ToLE(h.offset)
        \o <<tc[1], tc[2], r, r>> \o U32ToLE(h.xxh)

PartInit ==
    /\ ppc = "build"
    /\ pheader \in PartHeaders
    /\ pbytes = <<>>
    /\ pwr = [sink |-> VecWriter, ok |-> FALSE]
    /\ ppres = None
    /\ CodecIdle
    /\ HashIdle
    /\ ReadIdle
    /\ StreamIdle
    /\ OthersIdle

\* pheader.write_to(&mut writer)
PartWrite ==
    /\ ppc = "build"
    /\ \E writer \in PartWriters :
          \E r \in {PartWriteTo(pheader, XxhWriterNew(writer))} :
              /\ pbytes' = r.w.inner.data
              /\ pwr' = [sink |-> r.w.inner, ok |-> r.ok]
    /\ ppc' = "written"
    /\ UNCHANGED <<pheader, ppres>>
    /\ UNCHANGED nonPart

\* bytes that no serialiser wrote: any type and compression byte, a wrong
\* magic, nonzero reserved bytes, one byte too few or too many
PartRaw ==
    /\ ppc = "build"
    /\ pheader.size = <<0, 0, 0, 0>>
    /\ pheader.offset = <<0, 0, 0, 0>>
    /\ pheader.ptype = "Invalid"
    /\ pheader.comp = "None"
    /\ \E m \in {78, 0}, tc \in TypeCompBytes, r \in {0, 255}, d \in {-1, 0, 1} :
          pbytes' = LET raw == RawPart(pheader, m, tc, r)
                    IN  IF d < 0 THEN SubSeq(raw, 1, Len(raw) - 1)
                        ELSE IF d > 0 THEN Append(raw, 0)
                        ELSE raw
    /\ ppc' = "raw"
    /\ UNCHANGED <<pheader, pwr, ppres>>
    /\ UNCHANGED nonPart

\* PartHeader::from_bytes(&pbytes)
PartParse ==
    /\ ppc \in {"written", "raw"}
    /\ ppc' = (IF ppc = "written" THEN "reparsed" ELSE "parsed")
    /\ ppres' = PartFromBytes(pbytes)
    /\ UNCHANGED <<pheader, pbytes, pwr>>
    /\ UNCHANGED nonPart

PartNext ==
    \/ PartWrite
    \/ PartRaw
    \/ PartParse

allVars == <<vars, partVars, hashVars, readVars, streamVars, createVars, payloadVars, bankVars>>

PartSpec == PartInit /\ [][PartNext]_allVars

\* ------------------------------------------------------------------------
\* The checksum-wrapper run: the bytes of a buffer go through an xxhio::Reader
\* or an xxhio::Writer in at most MaxCalls calls; the inner stream moves
\* all, some or none of what a call asks for, or fails.
\* ------------------------------------------------------------------------
MaxCalls == 3

\* "Hello, world!\0" (test_writer) and the start of LOREM_IPSUM
HELLO == <<72, 101, 108, 108, 111, 44, 32, 119, 111, 114, 108, 100, 33, 0>>
LOREM ==
    <<76, 111, 114, 101, 109, 32, 105, 112, 115, 117, 109, 32, 100, 111, 108, 111,
      114, 32, 115, 105, 116, 32, 97, 109, 101, 116, 44, 32, 99, 111, 110, 115,
      101, 99, 116, 101, 116, 117, 114, 32>>

HashDatas == {<<>>, HELLO} \cup {SubSeq(LOREM, 1, n) : n \in {1, 15, 16, 17, 33, 40}}

\* what the inner stream answers to a call for req bytes: all of them, one
\* less, one, none, or an error
InnerReturns(req) ==
    {Ok(n) : n \in {k \in {0, 1, req - 1, req} : k >= 0 /\ k <= req}}
        \cup {Err([kind |-> "Interrupted"]), Err([kind |-> "Other"])}

HashInit ==
    /\ hw \in {HashStart(kind, data) : kind \in {"reader", "writer"}, data \in HashDatas}
    /\ CodecIdle
    /\ PartIdle
    /\ ReadIdle
    /\ StreamIdle
    /\ OthersIdle

\* the wrapper after a call in which the inner stream answered ret and the
\* wrapper's method returned r
HashAfter(ret, r) ==
    LET n == IF ret.ok THEN ret.val ELSE 0
    IN  [hw EXCEPT !.xxh = r.xxh,
                   !.ret = r.ret,
                   !.inner = ret,
                   !.prev = hw.xxh,
                   !.pos = hw.pos + n,
                   !.moved = hw.moved \o SubSeq(hw.data, hw.pos + 1, hw.pos + n),
                   !.calls = hw.calls + 1]

\* writer.write(&data[pos..pos + req]): the inner writer answers ret
HashWrite ==
    /\ hw.kind = "writer"
    /\ hw.calls < MaxCalls
    /\ \E req \in 0..(Len(hw.data) - hw.pos) :
          \E ret \in InnerReturns(req) :
              \E r \in {WriterWrite(hw.xxh, SubSeq(hw.data, hw.pos + 1, hw.pos + req), ret)} :
                  hw' = [HashAfter(ret, r) EXCEPT !.full = (hw.full /\ ret = Ok(req))]
    /\ UNCHANGED nonHash

\* reader.read(&mut buf) with a buf of req bytes: the inner reader answers
\* ret, after filling the start of buf with the next bytes of the data
HashRead ==
    /\ hw.kind = "reader"
    /\ hw.calls < MaxCalls
    /\ \E req \in 0..(Len(hw.data) - hw.pos) :
          \E ret \in InnerReturns(req) :
              \E n \in {IF ret.ok THEN ret.val ELSE 0} :
                  \E r \in {ReaderRead(hw.xxh,
                                SubSeq(hw.data, hw.pos + 1, hw.pos + n) \o Zeros(req - n),
                                ret)} :
                      hw' = [HashAfter(ret, r) EXCEPT !.full = (hw.full /\ ret = Ok(req))]
    /\ UNCHANGED nonHash

HashNext ==
    \/ HashWrite
    \/ HashRead

HashSpec == HashInit /\ [][HashNext]_allVars

\* ------------------------------------------------------------------------
\* The cursor run: a Cursor over a buffer takes any sequence of skip, seek,
\* read_borrow, read_byte, read_u32_le and read_u64_le calls, as long as its
\* position stays below MaxPos.
\* ------------------------------------------------------------------------
MaxPos == 40

\* tests::header_arr
HEADER_ARR ==
    <<78, 73, 77, 71, 80, 65, 82, 84, 224, 238, 145, 0, 0, 0, 0, 0,
      0, 0, 0, 0, 0, 0, 0, 0, 9, 0, 0, 0, 33, 40, 124, 205>>

ReadBufs == {<<>>, SubSeq(HEADER_ARR, 1, 11), HEADER_ARR}
ReadCounts == {0, 1, 3, 4, 8, 9}
SeekOffsets == {-33, -9, -8, -4, -1, 0, 1, 4, 8}
SeekStarts == {0, 8, 28, 32, 36}
ReadOps == {"read_byte", "read_u32_le", "read_u64_le"}

RdCursor == [buf |-> rd.buf, pos |-> rd.pos]

\* the cursor after the call op(arg) that returned ret and left it at pos
RdAfter(op, arg, pos, ret) ==
    [rd EXCEPT !.op = op, !.arg = arg, !.pos = pos, !.ret = ret,
               !.prev = rd.pos,
               !.failed = (rd.op \in ReadOps /\ rd.ret = None)]

ReadInit ==
    /\ rd \in {ReadStart(TRUE, b) : b \in ReadBufs}
    /\ CodecIdle
    /\ PartIdle
    /\ HashIdle
    /\ StreamIdle
    /\ OthersIdle

RdSkip ==
    /\ rd.on
    /\ \E count \in ReadCounts :
          \E r \in {skip(RdCursor, count)} :
              /\ r.pos <= MaxPos
              /\ rd' = RdAfter("skip", count, r.pos, r.val)
    /\ UNCHANGED nonRead

RdReadBorrow ==
    /\ rd.on
    /\ \E count \in ReadCounts :
          \E r \in {read_borrow(RdCursor, count)} :
              /\ r.pos <= MaxPos
              /\ rd' = RdAfter("read_borrow", count, r.pos, r.val)
    /\ UNCHANGED nonRead

RdSeek ==
    /\ rd.on
    /\ \E whence \in {"Start", "End", "Current"} :
          \E n \in (IF whence = "Start" THEN SeekStarts ELSE SeekOffsets) :
              \E r \in {Seek(RdCursor, whence, n)} :
                  /\ r.pos <= MaxPos
                  /\ rd' = RdAfter("seek", <<whence, n>>, r.pos, r.ret)
    /\ UNCHANGED nonRead

RdReadByte ==
    /\ rd.on
    /\ \E r \in {read_byte(RdCursor)} :
          rd' = RdAfter("read_byte", 1, r.pos, r.val)
    /\ UNCHANGED nonRead

RdReadU32 ==
    /\ rd.on
    /\ \E r \in {read_u32_le(RdCursor)} :
          rd' = RdAfter("read_u32_le", 4, r.pos, r.val)
    /\ UNCHANGED nonRead

RdReadU64 ==
    /\ rd.on
    /\ \E r \in {read_u64_le(RdCursor)} :
          rd' = RdAfter("read_u64_le", 8, r.pos, r.val)
    /\ UNCHANGED nonRead

ReadNext ==
    \/ RdSkip
    \/ RdReadBorrow
    \/ RdSeek
    \/ RdReadByte
    \/ RdReadU32
    \/ RdReadU64

ReadSpec == ReadInit /\ [][ReadNext]_allVars

\* ------------------------------------------------------------------------
\* The streaming run: check_image or do_swdl walks the parts of a header
\* that ImageHeader::from_bytes parsed, over an input of a few bytes.
\* ------------------------------------------------------------------------
MaxStreamParts == 3

StreamOffsets == {0, 1, 3}
StreamSizes == {0, 2}
StreamLengths == {0, 4, 8}

\* u64 <-> natural number, for values below 2^31
U64OfNat(n) == <<0, 0, n \div W16, n % W16>>
U64AsNat(v) == (v[3] * W16) + v[4]

\* the headers to stream: up to MaxStreamParts parts, each with an offset
\* and a size of its own
StreamHeaders ==
    UNION {
      { [ImageHeaderNew(NAME_TEST) EXCEPT
            !.parts = [k \in 1..n |->
                         [size |-> U64OfNat(plan[k][2]), offset |-> U64OfNat(plan[k][1]),
                          ptype |-> TypeFor(k - 1), comp |-> CompFor(k - 1),
                          xxh |-> <<4096 + k, 8192 + k>>]]]
        : plan \in [1..n -> StreamOffsets \X StreamSizes] }
      : n \in 0..MaxStreamParts }

\* variant of PadBefore that does not add the padding to current_offset
PadBeforeNoAdvance(s) ==
    LET off == U64AsNat(s.parts[s.i + 1].offset)
    IN  IF off < s.cur
        THEN [s EXCEPT !.pc = "done",
                       !.result = Err([kind |-> "OutOfOrder", index |-> s.i, offset |-> off])]
        ELSE IF off > s.cur
        THEN LET pad_bytes == off - s.cur
             IN  IF s.left < pad_bytes
                 THEN [s EXCEPT !.pc = "done", !.left = 0,
                                !.result = Err([kind |-> "Padding", index |-> s.i])]
                 ELSE [s EXCEPT !.left = @ - pad_bytes,
                                !.padded[s.i + 1] = pad_bytes, !.pc = "payload"]
        ELSE [s EXCEPT !.padded[s.i + 1] = 0, !.pc = "payload"]

\* the head of the loop body: the out-of-order test, then the padding read
\* with read_exact (an input that ends inside the padding is an error)
PadBefore(s) ==
    LET off == U64AsNat(s.parts[s.i + 1].offset)
    IN  IF off < s.cur
        THEN [s EXCEPT !.pc = "done",
                       !.result = Err([kind |-> "OutOfOrder", index |-> s.i, offset |-> off])]
        ELSE IF off > s.cur
        THEN LET pad_bytes == off - s.cur
             IN  IF s.left < pad_bytes
                 THEN [s EXCEPT !.pc = "done", !.left = 0,
                                !.result = Err([kind |-> "Padding", index |-> s.i])]
                 ELSE [s EXCEPT !.left = @ - pad_bytes, !.cur = @ + pad_bytes,
                                !.padded[s.i + 1] = pad_bytes, !.pc = "payload"]
        ELSE [s EXCEPT !.padded[s.i + 1] = 0, !.pc = "payload"]

\* program_part refuses these before it reads anything
Unsupported(part) == part.ptype \in {"BootTar", "Invalid"} \/ part.comp = "LibArchive"

\* the rest of the loop body: read_exact_crc (check_image) or program_part
\* (do_swdl) reads part.size bytes, compares the checksum, and the loop adds
\* the size to current_offset.  outcome is what the environment decides:
\* "ok", "mismatch" (the checksum differs), "env" (the output cannot be
\* opened or written; do_swdl only)
ReadPayload(s, outcome) ==
    LET part == s.parts[s.i + 1]
        size == U64AsNat(part.size)
        fail == [s EXCEPT !.pc = "done", !.result = Err([kind |-> "Payload", index |-> s.i])]
    IN  IF s.consumer = "swdl" /\ (Unsupported(part) \/ outcome = "env")
        THEN fail
        ELSE IF s.left < size
        THEN [fail EXCEPT !.left = 0, !.payload[s.i + 1] = s.left]
        ELSE IF outcome = "mismatch"
        THEN [fail EXCEPT !.left = @ - size, !.payload[s.i + 1] = size]
        ELSE [s EXCEPT !.left = @ - size, !.payload[s.i + 1] = size,
                       !.cur = @ + size, !.i = @ + 1, !.pc = "loop"]

StreamInit ==
    /\ \E h \in StreamHeaders :
          \E p \in {from_bytes(write_to(h, VecWriter).w.data)} :
              \E consumer \in {"check", "swdl"}, len \in StreamLengths :
                  sw = StreamStart(consumer, p, len)
    /\ CodecIdle
    /\ PartIdle
    /\ HashIdle
    /\ ReadIdle
    /\ OthersIdle

SwPad ==
    /\ sw.pc = "loop"
    /\ sw.i < Len(sw.parts)
    /\ sw' = PadBefore(sw)
    /\ UNCHANGED nonStream

SwPayload ==
    /\ sw.pc = "payload"
    /\ \E outcome \in {"ok", "mismatch", "env"} : sw' = ReadPayload(sw, outcome)
    /\ UNCHANGED nonStream

\* the loop is over: Ok(())
SwFinish ==
    /\ sw.pc = "loop"
    /\ sw.i = Len(sw.parts)
    /\ sw' = [sw EXCEPT !.pc = "done", !.result = Ok(<<>>)]
    /\ UNCHANGED nonStream

StreamNext ==
    \/ SwPad
    \/ SwPayload
    \/ SwFinish

StreamSpec == StreamInit /\ [][StreamNext]_allVars


\* ------------------------------------------------------------------------
\* mknImage create (src/mknImage/create.rs).  A &str is the sequence of its
\* bytes.
\* ------------------------------------------------------------------------
COLON == 58
PLUS == 43
MINUS == 45

\* str::split(sep): the fields between the separators, one field at least
RECURSIVE StrSplit(_, _)
StrSplit(s, sep) ==
    LET seps == {i \in 1..Len(s) : s[i] = sep}
    IN  IF seps = {} THEN <<s>>
        ELSE LET i == CHOOSE i \in seps : \A j \in seps : i <= j
             IN  <<SubSeq(s, 1, i - 1)>> \o StrSplit(SubSeq(s, i + 1, Len(s)), sep)

\* str::splitn(2, sep): cut at the first separator only
StrSplitN2(s, sep) ==
    LET seps == {i \in 1..Len(s) : s[i] = sep}
    IN  IF seps = {} THEN <<s>>
        ELSE LET i == CHOOSE i \in seps : \A j \in seps : i <= j
             IN  <<SubSeq(s, 1, i - 1), SubSeq(s, i + 1, Len(s))>>

\* the digits of str::parse::<i32>, accumulated with checked_mul and
\* checked_add (checked_sub after a '-')
RECURSIVE ParseDigits(_, _, _, _)
ParseDigits(s, i, acc, neg) ==
    IF i > Len(s) THEN Ok(acc)
    ELSE IF s[i] < 48 \/ s[i] > 57 THEN Err([kind |-> "InvalidDigit"])
    ELSE LET d == s[i] - 48
         IN  IF neg
             THEN IF acc < -214748364 \/ (acc = -214748364 /\ d > 8)
                  THEN Err([kind |-> "NegOverflow"])
                  ELSE ParseDigits(s, i + 1, (acc * 10) - d, neg)
             ELSE IF acc > 214748364 \/ (acc = 214748364 /\ d > 7)
                  THEN Err([kind |-> "PosOverflow"])
                  ELSE ParseDigits(s, i + 1, (acc * 10) + d, neg)

\* str::parse::<i32>: an optional sign, then one decimal digit at least
ParseI32(s) ==
    IF s = <<>> THEN Err([kind |-> "Empty"])
    ELSE LET signed == s[1] \in {PLUS, MINUS}
             digits == IF signed THEN Tail(s) ELSE s
         IN  IF digits = <<>> THEN Err([kind |-> "InvalidDigit"])
             ELSE ParseDigits(digits, 1, 0, s[1] = MINUS)

\* the names of the part types and of the compression modes
NAME_invalid == <<105, 110, 118, 97, 108, 105, 100>>   \* "invalid"
NAME_boot_img == <<98, 111, 111, 116, 95, 105, 109, 103>>   \* "boot_img"
NAME_boot_tar == <<98, 111, 111, 116, 95, 116, 97, 114>>   \* "boot_tar"
NAME_rootfs == <<114, 111, 111, 116, 102, 115>>   \* "rootfs"
NAME_rootfs_rw == <<114, 111, 111, 116, 102, 115, 95, 114, 119>>   \* "rootfs_rw"
NAME_none == <<110, 111, 110, 101>>   \* "none"
NAME_zstd == <<122, 115, 116, 100>>   \* "zstd"
NAME_libarchive == <<108, 105, 98, 97, 114, 99, 104, 105, 118, 101>>   \* "libarchive"

\* PART_TYPE_NAMES and COMP_MODE_NAMES (src/format.rs)
PART_TYPE_NAMES ==
    << <<"Invalid", NAME_invalid>>, <<"BootImg", NAME_boot_img>>,
       <<"BootTar", NAME_boot_tar>>, <<"Rootfs", NAME_rootfs>>,
       <<"RootfsRw", NAME_rootfs_rw>> >>
COMP_MODE_NAMES ==
    << <<"None", NAME_none>>, <<"Zstd", NAME_zstd>>, <<"LibArchive", NAME_libarchive>> >>

\* the `for (t, n) in TABLE.iter() { if name == *n { return Ok(*t); } }
\* Err(())` of TryFrom<&str> for PartType and for CompMode
NameLookup(table, name) ==
    LET hits == {i \in 1..Len(table) : table[i][2] = name}
    IN  IF hits = {} THEN Err(<<>>)
        ELSE Ok(table[CHOOSE i \in hits : \A j \in hits : i <= j][1])

PartTypeFromStr(name) == NameLookup(PART_TYPE_NAMES, name)
CompModeFromStr(name) == NameLookup(COMP_MODE_NAMES, name)

\* the part types the help text of `mknImage create` lists:
\* PART_TYPE_NAMES.iter().skip(1)
HelpPartTypes == {PART_TYPE_NAMES[i][2] : i \in 2..Len(PART_TYPE_NAMES)}

\* the third field of a part argument: the compression mode and the
\* auto-compression level
ParseComp(field) ==
    LET compwords == StrSplitN2(field, PLUS)
        comp == CompModeFromStr(compwords[1])
    IN  IF ~comp.ok
        THEN Err([kind |-> "BadCompMode", str |-> compwords[1]])
        ELSE IF comp.val = "Zstd"
        THEN IF Len(compwords) < 2 THEN Ok([comp |-> comp.val, auto_comp |-> None])
             ELSE IF compwords[2] = <<>>
             THEN Ok([comp |-> comp.val, auto_comp |-> Some(15)])
             ELSE LET level == ParseI32(compwords[2])
                  IN  IF ~level.ok THEN Err([kind |-> "BadLevel", str |-> compwords[2]])
                      ELSE Ok([comp |-> comp.val, auto_comp |-> Some(level.val)])
        ELSE Ok([comp |-> comp.val, auto_comp |-> None])

\* parse_input: FILE:TYPE[:COMPRESSION]
parse_input(arg) ==
    LET words == StrSplit(arg, COLON)
    IN  IF words[1] = <<>> THEN Err([kind |-> "EmptyFilename"])
        ELSE IF Len(words) < 2 THEN Err([kind |-> "MissingType"])
        ELSE LET ptype == PartTypeFromStr(words[2])
                 cc == IF Len(words) < 3 THEN Ok([comp |-> "None", auto_comp |-> None])
                       ELSE ParseComp(words[3])
             IN  IF ~ptype.ok THEN Err([kind |-> "BadType", str |-> words[2]])
                 ELSE IF ~cc.ok THEN cc
                 ELSE IF Len(words) > 3 THEN Err([kind |-> "TrailingFields"])
                 ELSE Ok([filename |-> words[1], ptype |-> ptype.val,
                          comp |-> cc.val.comp, auto_comp |-> cc.val.auto_comp])

\* the zstd frame that stores data in one raw block: magic, a frame header
\* with the content size, a last-block header, the data (RFC 8878).  It
\* stands for the output of zstd::stream::read::Encoder, of which only two
\* things matter here: it is not the input, and its length is not the
\* input's length.
ZSTD_MAGIC == <<40, 181, 47, 253>>
ZstdEncode(data) ==
    ZSTD_MAGIC \o <<32, Len(data)>>
        \o <<(1 + (Len(data) * 8)) % 256, ((1 + (Len(data) * 8)) \div 256) % 256, 0>>
        \o data

\* what zstd::stream::write::Decoder writes to its sink for such a frame
ZstdDecode(frame) == SubSeq(frame, 10, Len(frame))

\* whether the decoder accepts the bytes fed so far: they begin as a frame
ZstdFeedOk(fed) == \A i \in 1..Min(4, Len(fed)) : fed[i] = ZSTD_MAGIC[i]

\* the part files of the run: "a" (17 bytes), "b" (33), "c" (16) and "e"
\* (empty) exist
FileContent(filename) ==
    IF filename = <<97>> THEN Some(SubSeq(LOREM, 1, 17))
    ELSE IF filename = <<98>> THEN Some(SubSeq(LOREM, 8, 40))
    ELSE IF filename = <<99>> THEN Some(SubSeq(LOREM, 1, 16))
    ELSE IF filename = <<101>> THEN Some(<<>>)
    ELSE None

\* Output::new after File::create succeeded: an empty file that the
\* file system lets grow to cap bytes (cap < 0: without limit)
OutputNew(cap) ==
    [exists |-> TRUE, finished |-> FALSE, count |-> 0, data |-> <<>>, pos |-> 0,
     cap |-> cap]

\* write_all on an Output: Output::write counts what File::write took; a
\* write past the limit of the file system fails
OutputWriteAll(o, bytes) ==
    LET room == IF o.cap < 0 THEN Len(bytes)
                ELSE IF o.cap <= o.pos THEN 0
                ELSE Min(Len(bytes), o.cap - o.pos)
        data == SubSeq(o.data, 1, o.pos) \o SubSeq(bytes, 1, room)
                    \o SubSeq(o.data, o.pos + room + 1, Len(o.data))
    IN  [o |-> [o EXCEPT !.data = data, !.pos = @ + room, !.count = @ + room],
         ok |-> room = Len(bytes)]

\* io::copy(&mut reader, output) with reader an xxhio::Reader over the
\* bytes src: read up to chunk bytes, write them all, until read returns 0
RECURSIVE CopyLoop(_, _, _, _, _)
CopyLoop(xxh, src, at, o, chunk) ==
    LET n == Min(chunk, Len(src) - at)
        r == ReaderRead(xxh, SubSeq(src, at + 1, at + n) \o Zeros(chunk - n), Ok(n))
        w == OutputWriteAll(o, SubSeq(src, at + 1, at + n))
    IN  IF n = 0 THEN [xxh |-> r.xxh, o |-> o, ok |-> TRUE]
        ELSE IF ~w.ok THEN [xxh |-> r.xxh, o |-> w.o, ok |-> FALSE]
        ELSE CopyLoop(r.xxh, src, at + n, w.o, chunk)

ALIGN == 16

\* variant of add_part that pads to the alignment even a size that is
\* aligned already
add_part_always_pad(o, hdr, pinput, chunk, encoder) ==
    LET infile == FileContent(pinput.filename)
        src == IF pinput.auto_comp.some THEN ZstdEncode(infile.val) ELSE infile.val
        offset == o.count
        c == CopyLoop(XxhNew, src, 0, o, chunk)
        size == c.xxh.total_len
        part_header == [size |-> U64OfNat(size), offset |-> U64OfNat(offset),
                    ptype |-> pinput.ptype, comp |-> pinput.comp,
                    xxh |-> XxhFinish(c.xxh)]
        padding == ALIGN - (size % ALIGN)
        p == IF padding > 0 THEN OutputWriteAll(c.o, Zeros(padding))
             ELSE [o |-> c.o, ok |-> TRUE]
    IN  IF ~infile.some
        THEN [o |-> o, header |-> hdr, res |-> Err([kind |-> "OpenInput"])]
        ELSE IF pinput.auto_comp.some /\ ~encoder
        THEN [o |-> o, header |-> hdr, res |-> Err([kind |-> "Encoder"])]
        ELSE IF ~c.ok
        THEN [o |-> c.o, header |-> hdr, res |-> Err([kind |-> "Copy"])]
        ELSE IF ~p.ok
        THEN [o |-> p.o, header |-> hdr, res |-> Err([kind |-> "Padding"])]
        ELSE [o |-> p.o, header |-> [hdr EXCEPT !.parts = Append(@, part_header)],
              res |-> Ok(<<>>)]

\* add_part: the part file is opened, wrapped in a zstd encoder when
\* auto-compression was asked for (encoder: whether the encoder could be
\* built), copied to the output through an xxhio::Reader, padded to ALIGN,
\* and its PartHeader pushed
add_part(o, hdr, pinput, chunk, encoder) ==
    LET infile == FileContent(pinput.filename)
        src == IF pinput.auto_comp.some THEN ZstdEncode(infile.val) ELSE infile.val
        offset == o.count
        c == CopyLoop(XxhNew, src, 0, o, chunk)
        size == c.xxh.total_len
        part_header == [size |-> U64OfNat(size), offset |-> U64OfNat(offset),
                    ptype |-> pinput.ptype, comp |-> pinput.comp,
                    xxh |-> XxhFinish(c.xxh)]
        padding == (ALIGN - (size % ALIGN)) % ALIGN
        p == IF padding > 0 THEN OutputWriteAll(c.o, Zeros(padding))
             ELSE [o |-> c.o, ok |-> TRUE]
    IN  IF ~infile.some
        THEN [o |-> o, header |-> hdr, res |-> Err([kind |-> "OpenInput"])]
        ELSE IF pinput.auto_comp.some /\ ~encoder
        THEN [o |-> o, header |-> hdr, res |-> Err([kind |-> "Encoder"])]
        ELSE IF ~c.ok
        THEN [o |-> c.o, header |-> hdr, res |-> Err([kind |-> "Copy"])]
        ELSE IF ~p.ok
        THEN [o |-> p.o, header |-> hdr, res |-> Err([kind |-> "Padding"])]
        ELSE [o |-> p.o, header |-> [hdr EXCEPT !.parts = Append(@, part_header)],
              res |-> Ok(<<>>)]

\* the `for arg in args.values_of("parts")` loop of cmd_create: the parsed
\* parts, or the error of the first argument that does not parse
RECURSIVE ParseArgs(_, _, _)
ParseArgs(args, i, acc) ==
    IF i > Len(args) THEN Ok(acc)
    ELSE LET p == parse_input(args[i])
         IN  IF ~p.ok THEN Err([kind |-> "InvalidPart", arg |-> i, err |-> p.err])
             ELSE ParseArgs(args, i + 1, Append(acc, p.val))

\* ------------------------------------------------------------------------
\* Reading one payload: read_exact_crc (mknImage check) and the copy loop of
\* program_raw (swdl).  The state of either loop is a record:
\*   total     bytes read so far
\*   xxh       the state of the checksum wrapper
\*   fed       the bytes passed on to the output (program_raw)
\*   to_read   the length of the last read request, -1 before the first
\*   missing   count - total at the last read request
\*   res       None while the loop runs, then what the function returns
\* ------------------------------------------------------------------------
BLOCK_SIZE == 256 * 1024
CRC_BUF_LEN == 8192

LoopStart ==
    [total |-> 0, xxh |-> XxhNew, fed |-> <<>>, to_read |-> -1, missing |-> -1,
     res |-> None]

\* nimage::crc32::Reader, the read wrapper that read_exact_crc puts around
\* its input: it accumulates every byte the inner reader returned, an error
\* of the inner reader propagates and accumulates nothing.  The digest is
\* the checksum of the format.
CrcReaderRead(xxh, got, ret) ==
    [xxh |-> IF ret.ok THEN XxhWrite(xxh, SubSeq(got, 1, ret.val)) ELSE xxh,
     ret |-> ret]

CrcReaderSum(xxh) == XxhFinish(xxh)

\* variant of the loop body of read_exact_crc that asks for a whole buffer
\* whatever is missing
ReadExactCrcStepWholeBuf(st, count, got, ret) ==
    LET to_read == CRC_BUF_LEN
        r == CrcReaderRead(st.xxh, got, ret)
        asked == [st EXCEPT !.to_read = to_read, !.missing = count - st.total]
    IN  IF ~r.ret.ok THEN [asked EXCEPT !.res = Some(Err([kind |-> "Read"]))]
        ELSE IF r.ret.val = 0 THEN [asked EXCEPT !.res = Some(Err([kind |-> "EOF"]))]
        ELSE [asked EXCEPT !.xxh = r.xxh, !.total = @ + r.ret.val]

\* one turn of `while total < count` in read_exact_crc: got is buf[..to_read]
\* after the read, ret what the inner reader returned
ReadExactCrcStep(st, count, got, ret) ==
    LET to_read == Min(count - st.total, CRC_BUF_LEN)
        r == CrcReaderRead(st.xxh, got, ret)
        asked == [st EXCEPT !.to_read = to_read, !.missing = count - st.total]
    IN  IF ~r.ret.ok THEN [asked EXCEPT !.res = Some(Err([kind |-> "Read"]))]
        ELSE IF r.ret.val = 0 THEN [asked EXCEPT !.res = Some(Err([kind |-> "EOF"]))]
        ELSE [asked EXCEPT !.xxh = r.xxh, !.total = @ + r.ret.val]

\* Ok(reader.sum()) of read_exact_crc, then the comparison of check_image
ReadExactCrcFinish(st, part) ==
    LET actual_crc == CrcReaderSum(st.xxh)
    IN  IF actual_crc # part.xxh
        THEN [st EXCEPT !.res = Some(Err([kind |-> "Mismatch", actual |-> actual_crc]))]
        ELSE [st EXCEPT !.res = Some(Ok(actual_crc))]

\* the output of program_raw: the device, behind a zstd decoder for a
\* compressed part; libarchive parts are refused
ProgramRawOpen(part) ==
    IF part.comp = "LibArchive"
    THEN [LoopStart EXCEPT !.res = Some(Err([kind |-> "Unsupported"]))]
    ELSE LoopStart

\* variant of the loop body of program_raw that hashes what the decoder
\* wrote to the device
ProgramRawStepHashDecoded(st, part, got, ret, sink) ==
    LET size == U64AsNat(part.size)
        to_read == Min(BLOCK_SIZE, size - st.total)
        asked == [st EXCEPT !.to_read = to_read, !.missing = size - st.total]
        chunk == SubSeq(got, 1, ret.val)
        fed == st.fed \o chunk
        inner == IF sink /\ (part.comp = "Zstd" => ZstdFeedOk(fed))
                 THEN Ok(ret.val) ELSE Err([kind |-> "Write"])
        w == WriterWrite(st.xxh,
                         IF part.comp = "Zstd"
                         THEN SubSeq(ZstdDecode(fed), Len(ZstdDecode(st.fed)) + 1,
                                     Len(ZstdDecode(fed)))
                              \o Zeros(Len(chunk))
                         ELSE chunk,
                         IF inner.ok /\ part.comp = "Zstd"
                         THEN Ok(Len(ZstdDecode(fed)) - Len(ZstdDecode(st.fed)))
                         ELSE inner)
    IN  IF ~ret.ok THEN [asked EXCEPT !.res = Some(Err([kind |-> "Read"]))]
        ELSE IF ret.val = 0 THEN [asked EXCEPT !.res = Some(Err([kind |-> "EOF"]))]
        ELSE IF ~w.ret.ok THEN [asked EXCEPT !.res = Some(w.ret)]
        ELSE [asked EXCEPT !.xxh = w.xxh, !.fed = fed, !.total = @ + ret.val]

\* one turn of `while total < part.size` in program_raw: got is
\* buf[..to_read] after the read, ret what input.read returned, sink whether
\* the device takes what it is given.  out is an xxhio::Writer around the
\* decoder (or the device), so that the bytes hashed are the bytes read.
ProgramRawStep(st, part, got, ret, sink) ==
    LET size == U64AsNat(part.size)
        to_read == Min(BLOCK_SIZE, size - st.total)
        asked == [st EXCEPT !.to_read = to_read, !.missing = size - st.total]
        chunk == SubSeq(got, 1, ret.val)
        fed == st.fed \o chunk
        inner == IF sink /\ (part.comp = "Zstd" => ZstdFeedOk(fed))
                 THEN Ok(ret.val) ELSE Err([kind |-> "Write"])
        w == WriterWrite(st.xxh, chunk, inner)
    IN  IF ~ret.ok THEN [asked EXCEPT !.res = Some(Err([kind |-> "Read"]))]
        ELSE IF ret.val = 0 THEN [asked EXCEPT !.res = Some(Err([kind |-> "EOF"]))]
        ELSE IF ~w.ret.ok THEN [asked EXCEPT !.res = Some(w.ret)]
        ELSE [asked EXCEPT !.xxh = w.xxh, !.fed = fed, !.total = @ + ret.val]

\* let hash = out.hash(); if hash != part.xxh { Err } ... Ok(out_count)
ProgramRawFinish(st, part) ==
    LET hash == XxhFinish(st.xxh)
    IN  IF hash # part.xxh
        THEN [st EXCEPT !.res = Some(Err([kind |-> "Mismatch", actual |-> hash]))]
        ELSE [st EXCEPT !.res = Some(Ok(hash))]

\* what the device holds of the part after program_raw
DeviceBytes(st, part) == IF part.comp = "Zstd" THEN ZstdDecode(st.fed) ELSE st.fed

\* program_raw on the input src, of which every read returns up to chunk
\* bytes
RECURSIVE ProgramRawLoop(_, _, _, _)
ProgramRawLoop(st, part, src, chunk) ==
    LET size == U64AsNat(part.size)
        n == Min(Min(chunk, Min(BLOCK_SIZE, size - st.total)), Len(src) - st.total)
    IN  IF st.res.some THEN st
        ELSE IF st.total >= size THEN ProgramRawFinish(st, part)
        ELSE ProgramRawLoop(
                 ProgramRawStep(st, part, SubSeq(src, st.total + 1, st.total + n),
                                Ok(n), TRUE),
                 part, src, chunk)

program_raw(part, src, chunk) == ProgramRawLoop(ProgramRawOpen(part), part, src, chunk)

\* ------------------------------------------------------------------------
\* The create run: cmd_create on one or two part arguments.  cr is a record:
\*   pc        "parse", "open", "placeholder", "parts", "header", "done"
\*   args      the part arguments
\*   name      the image name
\*   inputs    input_parts
\*   created   whether File::create has created the output file
\*   out       the Output and its file, None before Output::new
\*   header    the ImageHeader
\*   written   whether header.write_to returned Ok
\*   result    what cmd_create returned
\*   flash     per part, what program_raw made of the finished image
\* ------------------------------------------------------------------------
MaxArgs == 2

\* the part arguments:
\*    1  "a:boot_img"
\*    2  "b:rootfs:zstd+"
\*    3  "e:rootfs_rw:zstd+3"
\*    4  "c:boot_tar:none"
\*    5  "b:rootfs:libarchive"
\*    6  "e:rootfs:zstd"
\*    7  "a:rootfs:none+9"
\*    8  "a:rootfs:zstd++7"
\*    9  "a:rootfs:zstd+-1"
\*   10  "x:rootfs"
\*   11  "a:invalid"
\*   12  ":rootfs"
\*   13  "a"
\*   14  "a:"
\*   15  "a:bogus"
\*   16  "a:Rootfs"
\*   17  "a:rootfs:"
\*   18  "a:rootfs:gzip"
\*   19  "a:rootfs:zstd+x"
\*   20  "a:rootfs:zstd+2147483648"
\*   21  "a:rootfs:none:"
\*   22  "a:rootfs:zstd:extra"
\*   23  "a:rootfs:gzip:extra"
\*   24  "a:bogus:gzip"
ArgPool ==
    << <<97, 58, 98, 111, 111, 116, 95, 105, 109, 103>>,
       <<98, 58, 114, 111, 111, 116, 102, 115, 58, 122, 115, 116, 100, 43>>,
       <<101, 58, 114, 111, 111, 116, 102, 115, 95, 114, 119, 58, 122, 115, 116, 100, 43, 51>>,
       <<99, 58, 98, 111, 111, 116, 95, 116, 97, 114, 58, 110, 111, 110, 101>>,
       <<98, 58, 114, 111, 111, 116, 102, 115, 58, 108, 105, 98, 97, 114, 99, 104, 105, 118, 101>>,
       <<101, 58, 114, 111, 111, 116, 102, 115, 58, 122, 115, 116, 100>>,
       <<97, 58, 114, 111, 111, 116, 102, 115, 58, 110, 111, 110, 101, 43, 57>>,
       <<97, 58, 114, 111, 111, 116, 102, 115, 58, 122, 115, 116, 100, 43, 43, 55>>,
       <<97, 58, 114, 111, 111, 116, 102, 115, 58, 122, 115, 116, 100, 43, 45, 49>>,
       <<120, 58, 114, 111, 111, 116, 102, 115>>,
       <<97, 58, 105, 110, 118, 97, 108, 105, 100>>,
       <<58, 114, 111, 111, 116, 102, 115>>,
       <<97>>,
       <<97, 58>>,
       <<97, 58, 98, 111, 103, 117, 115>>,
       <<97, 58, 82, 111, 111, 116, 102, 115>>,
       <<97, 58, 114, 111, 111, 116, 102, 115, 58>>,
       <<97, 58, 114, 111, 111, 116, 102, 115, 58, 103, 122, 105, 112>>,
       <<97, 58, 114, 111, 111, 116, 102, 115, 58, 122, 115, 116, 100, 43, 120>>,
       <<97, 58, 114, 111, 111, 116, 102, 115, 58, 122, 115, 116, 100, 43, 50, 49, 52, 55, 52, 56, 51, 54, 52, 56>>,
       <<97, 58, 114, 111, 111, 116, 102, 115, 58, 110, 111, 110, 101, 58>>,
       <<97, 58, 114, 111, 111, 116, 102, 115, 58, 122, 115, 116, 100, 58, 101, 120, 116, 114, 97>>,
       <<97, 58, 114, 111, 111, 116, 102, 115, 58, 103, 122, 105, 112, 58, 101, 120, 116, 114, 97>>,
       <<97, 58, 98, 111, 103, 117, 115, 58, 103, 122, 105, 112>> >>

\* the arguments that name a readable file and a valid type
GoodArgs == {ArgPool[i] : i \in 1..9}

\* one argument, or up to MaxArgs of which all but the last are good
ArgLists ==
    {<<ArgPool[i]>> : i \in 1..Len(ArgPool)}
        \cup UNION {{[j \in 1..k |-> ArgPool[1]] \o <<a, ArgPool[i]>> :
                        a \in GoodArgs, i \in 1..12} : k \in 0..(MaxArgs - 2)}

CreateNames == {NAME_TEST, Rep(65, NIMG_NAME_LEN + 1)}

\* limits of the file system on the output file: none, or one that is hit
\* inside the placeholder, inside a payload, inside a padding
OutputCaps == {-1, NIMG_HDR_SIZE - 1, NIMG_HDR_SIZE + 10, NIMG_HDR_SIZE + 20}

CreateStart(args, name) ==
    [pc |-> "parse", args |-> args, name |-> name, inputs |-> <<>>,
     created |-> FALSE, out |-> None, header |-> ImageHeaderNew(<<>>),
     written |-> FALSE, result |-> None, flash |-> <<>>]

CreateInit ==
    /\ cr \in {CreateStart(args, name) : args \in ArgLists, name \in CreateNames}
    /\ CodecIdle
    /\ PartIdle
    /\ HashIdle
    /\ ReadIdle
    /\ StreamIdle
    /\ PayloadIdle
    /\ BankIdle

\* variant of the return of cmd_create in which dropping the Output leaves
\* the file alone
CreateReturnKeep(c, result) == [c EXCEPT !.pc = "done", !.result = result]

\* cmd_create returns: the Output, if there is one, is dropped, and Drop
\* removes a file that was not flagged as finished
CreateReturn(c, result) ==
    [c EXCEPT !.pc = "done", !.result = result,
              !.out = IF c.out = None \/ c.out.finished THEN c.out
                      ELSE [c.out EXCEPT !.exists = FALSE]]

\* the arguments are parsed before anything else
CrParse ==
    /\ cr.pc = "parse"
    /\ \E p \in {ParseArgs(cr.args, 1, <<>>)} :
          cr' = IF p.ok THEN [cr EXCEPT !.pc = "open", !.inputs = p.val]
                ELSE CreateReturn(cr, p)
    /\ UNCHANGED nonCreate

\* Output::new: File::create succeeds or not
CrOpen ==
    /\ cr.pc = "open"
    /\ \/ cr' = CreateReturn(cr, Err([kind |-> "OpenOutput"]))
       \/ \E cap \in OutputCaps :
             cr' = [cr EXCEPT !.pc = "placeholder", !.created = TRUE,
                              !.out = OutputNew(cap)]
    /\ UNCHANGED nonCreate

\* output.write_zeros(NIMG_HDR_SIZE)?; output.count = 0;
\* let mut header = ImageHeader::new(image_name);
CrPlaceholder ==
    /\ cr.pc = "placeholder"
    /\ \E w \in {OutputWriteAll(cr.out, Zeros(NIMG_HDR_SIZE))} :
          cr' = IF ~w.ok
                THEN CreateReturn([cr EXCEPT !.out = w.o], Err([kind |-> "Placeholder"]))
                ELSE [cr EXCEPT !.pc = "parts", !.out = [w.o EXCEPT !.count = 0],
                                !.header = ImageHeaderNew(cr.name)]
    /\ UNCHANGED nonCreate

\* add_part(&mut output, &mut header, part)? for the next part
CrAddPart ==
    /\ cr.pc = "parts"
    /\ Len(cr.header.parts) < Len(cr.inputs)
    /\ \E chunk \in {7, 8192}, encoder \in BOOLEAN :
          \E r \in {add_part(cr.out, cr.header, cr.inputs[Len(cr.header.parts) + 1],
                             chunk, encoder)} :
              cr' = IF r.res.ok THEN [cr EXCEPT !.out = r.o, !.header = r.header]
                    ELSE CreateReturn([cr EXCEPT !.out = r.o], r.res)
    /\ UNCHANGED nonCreate

\* every part is added: seek to the start (the output path may name
\* something that cannot seek), write the real header, finish, return
CrHeader ==
    /\ cr.pc = "parts"
    /\ Len(cr.header.parts) = Len(cr.inputs)
    /\ \/ cr' = CreateReturn(cr, Err([kind |-> "Seek"]))
       \/ \E r \in {write_to(cr.header, VecWriter)} :
             \E w \in {OutputWriteAll([cr.out EXCEPT !.pos = 0], r.w.data)} :
                 cr' = IF ~r.res.ok
                       THEN CreateReturn([cr EXCEPT !.out = w.o], r.res)
                       ELSE CreateReturn([cr EXCEPT !.out = [w.o EXCEPT !.finished = TRUE],
                                                    !.written = TRUE],
                                         Ok(<<>>))
    /\ UNCHANGED nonCreate

\* the finished image is flashed: program_raw reads each part from its
\* place in the file
CrFlash ==
    /\ cr.pc = "done"
    /\ cr.result = Ok(<<>>)
    /\ \E chunk \in {3, BLOCK_SIZE} :
          cr' = [cr EXCEPT
                    !.pc = "flashed",
                    !.flash = [i \in 1..Len(cr.header.parts) |->
                                  program_raw(cr.header.parts[i],
                                              SubSeq(cr.out.data,
                                                     NIMG_HDR_SIZE
                                                        + U64AsNat(cr.header.parts[i].offset) + 1,
                                                     Len(cr.out.data)),
                                              chunk)]]
    /\ UNCHANGED nonCreate

CreateNext ==
    \/ CrParse
    \/ CrOpen
    \/ CrPlaceholder
    \/ CrAddPart
    \/ CrHeader
    \/ CrFlash

CreateSpec == CreateInit /\ [][CreateNext]_allVars


\* ------------------------------------------------------------------------
\* The payload run: one consumer reads one payload.  pl is a record:
\*   pc        "open", "loop", "done"
\*   consumer  "check" (read_exact_crc) or "swdl" (program_raw)
\*   part      the PartHeader
\*   src       the input from the first byte of the payload on
\*   st        the state of the loop
\*   reads     the number of reads made, counted up to MaxReads
\* ------------------------------------------------------------------------
MaxReads == 4

PayloadDatas ==
    {[comp |-> "None", data |-> <<>>],
     [comp |-> "None", data |-> SubSeq(LOREM, 1, 5)],
     [comp |-> "Zstd", data |-> ZstdEncode(SubSeq(LOREM, 1, 2))],
     [comp |-> "Zstd", data |-> SubSeq(LOREM, 1, 5)],
     [comp |-> "LibArchive", data |-> SubSeq(LOREM, 1, 5)]}

\* the inputs that carry the payload p: itself, followed by more data,
\* cut short, with one byte changed
PayloadInputs(p) ==
    {p, p \o <<1, 2>>, SubSeq(p, 1, Len(p) - 2)}
        \cup {[p EXCEPT ![i] = (@ + 1) % 256] : i \in {Len(p)} \ {0}}

\* the lengths a read may return
ReadLens == {0, 1, 2, 5, 11}

PayloadStart(consumer, part, src) ==
    [pc |-> "open", consumer |-> consumer, part |-> part, src |-> src,
     st |-> LoopStart, reads |-> 0]

PayloadInit ==
    /\ \E consumer \in {"check", "swdl"}, p \in PayloadDatas, good \in BOOLEAN :
          \E src \in PayloadInputs(p.data) :
              pl = PayloadStart(
                       consumer,
                       [size |-> U64OfNat(Len(p.data)), offset |-> U64OfNat(0),
                        ptype |-> "Rootfs", comp |-> p.comp,
                        xxh |-> IF good THEN xxhash32(p.data) ELSE <<0, 0>>],
                       src)
    /\ CodecIdle
    /\ PartIdle
    /\ HashIdle
    /\ ReadIdle
    /\ StreamIdle
    /\ CreateIdle
    /\ BankIdle

\* read_exact_crc builds its reader; program_raw opens its output
PlOpen ==
    /\ pl.pc = "open"
    /\ \E st \in {IF pl.consumer = "swdl" THEN ProgramRawOpen(pl.part) ELSE LoopStart} :
          pl' = [pl EXCEPT !.st = st, !.pc = IF st.res.some THEN "done" ELSE "loop"]
    /\ UNCHANGED nonPayload

\* one turn of the loop: the read returns n bytes, not more than were asked
\* for nor than the input has, and 0 only when there is nothing to return;
\* or the read fails; or (swdl) the device refuses the write
PlRead ==
    /\ pl.pc = "loop"
    /\ pl.st.total < U64AsNat(pl.part.size)
    /\ \E n \in ReadLens, ret \in {"ok", "err"}, sink \in BOOLEAN :
          /\ pl.st.total + n <= Len(pl.src)
          /\ pl.consumer = "check" => sink
          /\ \E st \in {IF pl.consumer = "check"
                        THEN ReadExactCrcStep(
                                 pl.st, U64AsNat(pl.part.size),
                                 SubSeq(pl.src, pl.st.total + 1, pl.st.total + n),
                                 IF ret = "ok" THEN Ok(n) ELSE Err([kind |-> "Read"]))
                        ELSE ProgramRawStep(
                                 pl.st, pl.part,
                                 SubSeq(pl.src, pl.st.total + 1, pl.st.total + n),
                                 IF ret = "ok" THEN Ok(n) ELSE Err([kind |-> "Read"]),
                                 sink)} :
                /\ n <= st.to_read
                /\ n = 0 => (st.to_read = 0 \/ pl.st.total = Len(pl.src))
                /\ pl' = [pl EXCEPT !.st = st, !.reads = Min(@ + 1, MaxReads),
                                    !.pc = IF st.res.some THEN "done" ELSE "loop"]
    /\ UNCHANGED nonPayload

\* the loop is left: the digest is taken and compared
PlFinish ==
    /\ pl.pc = "loop"
    /\ pl.st.total >= U64AsNat(pl.part.size)
    /\ pl' = [pl EXCEPT !.pc = "done",
                        !.st = IF pl.consumer = "check"
                               THEN ReadExactCrcFinish(pl.st, pl.part)
                               ELSE ProgramRawFinish(pl.st, pl.part)]
    /\ UNCHANGED nonPayload

PayloadNext ==
    \/ PlOpen
    \/ PlRead
    \/ PlFinish

PayloadSpec == PayloadInit /\ [][PayloadNext]_allVars


\* ------------------------------------------------------------------------
\* swdl flash banks (src/swdl/flashbanks.rs)
\* ------------------------------------------------------------------------
\* "/dev/mmcblk0p2", "/dev/mmcblk0p3"
ROOTFS_DEVS == <<<<47, 100, 101, 118, 47, 109, 109, 99, 98, 108, 107, 48, 112, 50>>,
                 <<47, 100, 101, 118, 47, 109, 109, 99, 98, 108, 107, 48, 112, 51>>>>

\* "root=", "ro", "rw", " "
ROOT_EQ == <<114, 111, 111, 116, 61>>
WORD_ro == <<114, 111>>
WORD_rw == <<114, 119>>
SPACE == 32

\* u8::is_ascii_whitespace: space, tab, line feed, form feed, carriage return
IsAsciiWhitespace(b) == b \in {32, 9, 10, 12, 13}

\* str::split_ascii_whitespace: the maximal runs of bytes that are not
\* ASCII whitespace
RECURSIVE SplitWords(_, _, _, _)
SplitWords(str, i, word, acc) ==
    IF i > Len(str) THEN (IF word = <<>> THEN acc ELSE Append(acc, word))
    ELSE IF IsAsciiWhitespace(str[i])
    THEN SplitWords(str, i + 1, <<>>, IF word = <<>> THEN acc ELSE Append(acc, word))
    ELSE SplitWords(str, i + 1, Append(word, str[i]), acc)

split_ascii_whitespace(str) == SplitWords(str, 1, <<>>, <<>>)

\* str::starts_with and str::strip_prefix
starts_with(word, prefix) ==
    Len(word) >= Len(prefix) /\ SubSeq(word, 1, Len(prefix)) = prefix

strip_prefix(word, prefix) ==
    IF starts_with(word, prefix) THEN Some(SubSeq(word, Len(prefix) + 1, Len(word)))
    ELSE None

\* [&str]::join(" ")
RECURSIVE JoinWords(_, _)
JoinWords(words, i) ==
    IF i > Len(words) THEN <<>>
    ELSE IF i = Len(words) THEN words[i]
    ELSE words[i] \o <<SPACE>> \o JoinWords(words, i + 1)

\* the loop of get_active_rootfs over the words from i on
RECURSIVE ActiveFrom(_, _)
ActiveFrom(words, i) ==
    IF i > Len(words) THEN None
    ELSE IF strip_prefix(words[i], ROOT_EQ).some THEN strip_prefix(words[i], ROOT_EQ)
    ELSE ActiveFrom(words, i + 1)

\* variant of get_active_rootfs that returns the last root= word
get_active_rootfs_last(cmdline) ==
    LET words == split_ascii_whitespace(cmdline)
        roots == {i \in 1..Len(words) : starts_with(words[i], ROOT_EQ)}
    IN  IF roots = {} THEN None
        ELSE strip_prefix(words[CHOOSE i \in roots : \A j \in roots : j <= i], ROOT_EQ)

get_active_rootfs(cmdline) == ActiveFrom(split_ascii_whitespace(cmdline), 1)

get_inactive_rootfs(cmdline) ==
    LET active == get_active_rootfs(cmdline)
        hits == {i \in 1..Len(ROOTFS_DEVS) : active.some /\ active.val = ROOTFS_DEVS[i]}
    IN  IF ~active.some THEN None
        ELSE IF hits = {} THEN None
        ELSE Some(ROOTFS_DEVS[((CHOOSE i \in hits : \A j \in hits : i <= j) % Len(ROOTFS_DEVS)) + 1])

\* the `for word in cmdline.split_ascii_whitespace()` loop of update_rootfs
RECURSIVE UpdateWords(_, _, _, _, _, _, _)
UpdateWords(words, i, new_rootfs_word, rw, set_root, set_rw, new) ==
    IF i > Len(words)
    THEN [new |-> new, set_root |-> set_root, set_rw |-> set_rw]
    ELSE IF starts_with(words[i], ROOT_EQ)
    THEN UpdateWords(words, i + 1, new_rootfs_word, rw, TRUE, set_rw,
                     IF ~set_root THEN Append(new, new_rootfs_word) ELSE new)
    ELSE IF words[i] = WORD_ro \/ words[i] = WORD_rw
    THEN UpdateWords(words, i + 1, new_rootfs_word, rw, set_root, TRUE,
                     IF ~set_rw THEN Append(new, IF rw THEN WORD_rw ELSE WORD_ro) ELSE new)
    ELSE UpdateWords(words, i + 1, new_rootfs_word, rw, set_root, set_rw,
                     Append(new, words[i]))

\* variant of update_rootfs that rewrites every root= word and every ro/rw
\* word instead of dropping all but the first
update_rootfs_rewrite_all(cmdline, new_rootfs, rw) ==
    LET words == split_ascii_whitespace(cmdline)
        new_rootfs_word == ROOT_EQ \o new_rootfs
        rw_word == IF rw THEN WORD_rw ELSE WORD_ro
        new == [i \in 1..Len(words) |->
                   IF starts_with(words[i], ROOT_EQ) THEN new_rootfs_word
                   ELSE IF words[i] = WORD_ro \/ words[i] = WORD_rw THEN rw_word
                   ELSE words[i]]
        n1 == IF \A i \in 1..Len(words) : ~starts_with(words[i], ROOT_EQ)
              THEN Append(new, new_rootfs_word) ELSE new
        n2 == IF \A i \in 1..Len(words) : words[i] \notin {WORD_ro, WORD_rw}
              THEN Append(n1, rw_word) ELSE n1
    IN  JoinWords(n2, 1)

update_rootfs(cmdline, new_rootfs, rw) ==
    LET new_rootfs_word == ROOT_EQ \o new_rootfs
        l == UpdateWords(split_ascii_whitespace(cmdline), 1, new_rootfs_word, rw,
                         FALSE, FALSE, <<>>)
        n1 == IF ~l.set_root THEN Append(l.new, new_rootfs_word) ELSE l.new
        n2 == IF ~l.set_rw THEN Append(n1, IF rw THEN WORD_rw ELSE WORD_ro) ELSE n1
    IN  JoinWords(n2, 1)

\* ------------------------------------------------------------------------
\* The bank run: a kernel command line is asked for its inactive bank, or
\* updated, and the update applied again to its result.  fb is a record:
\*   pc          "start", "asked", "updated", "again"
\*   cmdline     the command line
\*   active      what get_active_rootfs returned
\*   inactive    what get_inactive_rootfs returned
\*   new_rootfs  the device given to update_rootfs
\*   rw          the flag given to update_rootfs
\*   result      what update_rootfs returned
\*   result2     what update_rootfs returned for result
\* ------------------------------------------------------------------------
MaxWords == 3

\* the words of the command lines:
\*   1  "root=/dev/mmcblk0p2"
\*   2  "root=/dev/mmcblk0p3"
\*   3  "root=/dev/sda1"
\*   4  "ro"
\*   5  "rw"
\*   6  "rootwait"
\*   7  "console=tty0"
\*   8  "xroot=/dev/mmcblk0p2"
WordPool ==
    << <<114, 111, 111, 116, 61, 47, 100, 101, 118, 47, 109, 109, 99, 98, 108, 107, 48, 112, 50>>,
       <<114, 111, 111, 116, 61, 47, 100, 101, 118, 47, 109, 109, 99, 98, 108, 107, 48, 112, 51>>,
       <<114, 111, 111, 116, 61, 47, 100, 101, 118, 47, 115, 100, 97, 49>>,
       <<114, 111>>,
       <<114, 119>>,
       <<114, 111, 111, 116, 119, 97, 105, 116>>,
       <<99, 111, 110, 115, 111, 108, 101, 61, 116, 116, 121, 48>>,
       <<120, 114, 111, 111, 116, 61, 47, 100, 101, 118, 47, 109, 109, 99, 98, 108, 107, 48, 112, 50>> >>

\* what stands between, before and after the words: single spaces, or
\* runs of whitespace at both ends and between
Spacings == {"single", "runs"}

RECURSIVE MakeCmdline(_, _, _)
MakeCmdline(ws, spacing, i) ==
    IF i > Len(ws) THEN (IF spacing = "runs" THEN <<10>> ELSE <<>>)
    ELSE (IF spacing = "runs" THEN <<32, 9>>
          ELSE IF i > 1 THEN <<32>> ELSE <<>>)
         \o WordPool[ws[i]] \o MakeCmdline(ws, spacing, i + 1)

Cmdlines ==
    UNION {{MakeCmdline(ws, spacing, 1) :
               ws \in [1..k -> 1..Len(WordPool)], spacing \in Spacings} :
           k \in 0..MaxWords}

\* "/dev/mmcblk0p2", "/dev/mmcblk0p3", "/dev/sda1"
NewRootfs == {ROOTFS_DEVS[1], ROOTFS_DEVS[2], SubSeq(WordPool[3], 6, Len(WordPool[3]))}

BankStart(cmdline) ==
    [pc |-> "start", cmdline |-> cmdline, active |-> None, inactive |-> None,
     new_rootfs |-> <<>>, rw |-> FALSE, result |-> <<>>, result2 |-> <<>>]

BankInit ==
    /\ fb \in {BankStart(cmdline) : cmdline \in Cmdlines}
    /\ CodecIdle
    /\ PartIdle
    /\ HashIdle
    /\ ReadIdle
    /\ StreamIdle
    /\ CreateIdle
    /\ PayloadIdle

\* get_active_rootfs(cmdline) and get_inactive_rootfs(cmdline)
FbInactive ==
    /\ fb.pc = "start"
    /\ fb' = [fb EXCEPT !.pc = "asked",
                        !.active = get_active_rootfs(fb.cmdline),
                        !.inactive = get_inactive_rootfs(fb.cmdline)]
    /\ UNCHANGED nonBank

\* update_rootfs(cmdline, new_rootfs, rw)
FbUpdate ==
    /\ fb.pc = "start"
    /\ \E new_rootfs \in NewRootfs, rw \in BOOLEAN :
          fb' = [fb EXCEPT !.pc = "updated", !.new_rootfs = new_rootfs, !.rw = rw,
                           !.result = update_rootfs(fb.cmdline, new_rootfs, rw)]
    /\ UNCHANGED nonBank

\* update_rootfs(result, new_rootfs, rw)
FbUpdateAgain ==
    /\ fb.pc = "updated"
    /\ fb' = [fb EXCEPT !.pc = "again",
                        !.result2 = update_rootfs(fb.result, fb.new_rootfs, fb.rw)]
    /\ UNCHANGED nonBank

BankNext ==
    \/ FbInactive
    \/ FbUpdate
    \/ FbUpdateAgain

BankSpec == BankInit /\ [][BankNext]_allVars

\* ------------------------------------------------------------------------
\* Properties
\* ------------------------------------------------------------------------
\* the bytes "NEWBSIMG" every image header starts with (tests::GOOD_HEADER_START)
MagicBytes == <<78, 69, 87, 66, 83, 73, 77, 71>>

\* the input is exactly what write_to wrote: no corruption was applied
Unedited == edit = 0 /\ ~fixed

\* the checksum stored in the last 4 bytes of a 1024-byte input, and the
\* checksum of the 1020 bytes before it
StoredHash == <<buf[1023] + (256 * buf[1024]), buf[1021] + (256 * buf[1022])>>
BodyHash == xxhash32(SubSeq(buf, 1, 1020))

\* the first 8 bytes of the input read as a little-endian u64
FirstWord ==
    <<buf[7] + (256 * buf[8]), buf[5] + (256 * buf[6]),
      buf[3] + (256 * buf[4]), buf[1] + (256 * buf[2])>>

\* the 32 bytes PartHeader::write_to emits for a part
PartRecord(part) == PartWriteTo(part, XxhWriterNew(VecWriter)).w.inner.data

RECURSIVE PartRecords(_, _)
PartRecords(parts, i) ==
    IF i > Len(parts) THEN <<>>
    ELSE PartRecord(parts[i]) \o PartRecords(parts, i + 1)

\* the first 1020 bytes of a serialised header, field after field
Layout(h) ==
    MagicBytes \o <<h.version, Len(h.parts)>> \o Zeros(6)
        \o h.name \o Zeros(128 - Len(h.name))
        \o PartRecords(h.parts, 1) \o Zeros(32 * (27 - Len(h.parts)))
        \o Zeros(12)

\* the 128-byte name field of the input (offsets 16..144) and the number
\* of its bytes that precede the first NUL (128 when there is none)
NameField == SubSeq(buf, 17, 144)
NamePrefixLen ==
    CHOOSE n \in 0..128 :
        /\ \A j \in 1..n : NameField[j] # 0
        /\ (n = 128) \/ (NameField[n + 1] = 0)

\* the 32-byte part slot k of the input (offset 144 + 32 * k), and the
\* declared slots that PartHeader::from_bytes rejects
Slot(k) == SubSeq(buf, 145 + (32 * k), 176 + (32 * k))
RejectedSlots == {k \in 0..(buf[10] - 1) : ~PartFromBytes(Slot(k)).ok}
FirstRejected == CHOOSE k \in RejectedSlots : \A j \in RejectedSlots : k <= j

\* C1 (as stated): a header that passes validate, with 1 to 27 parts and a
\* name of at most 128 bytes, comes back equal (version, name, every part
\* field, part order) from from_bytes applied to the bytes write_to wrote.
C1_RoundTrip ==
    (/\ pc = "parsed"
     /\ Unedited
     /\ wres = Ok(<<>>)
     /\ validate(header).ok
     /\ Len(header.parts) >= 1
     /\ Len(header.parts) <= 27
     /\ Len(header.name) <= 128)
    => pres = Ok(header)

\* C2: for a header that passes validate, write_to on a sink that accepts
\* all bytes succeeds and emits exactly 1024 bytes: magic, version, part
\* count, 6 zeros, the name zero-padded to 128 bytes, one 32-byte record per
\* part, zeros for the unused slots, 12 zeros, and last the little-endian
\* checksum of exactly the 1020 bytes before it.
C2_Layout ==
    (/\ pc = "written"
     /\ validate(header).ok
     /\ (out.cap < 0) \/ (out.cap >= 1024))
    => /\ wres = Ok(<<>>)
       /\ Len(out.data) = 1024
       /\ SubSeq(out.data, 1, 1020) = Layout(header)
       /\ SubSeq(out.data, 1021, 1024) = U32ToLE(xxhash32(SubSeq(out.data, 1, 1020)))

\* the header of tests::good_header_obj written into a 1024-byte slice ends
\* with the bytes of tests::GOOD_HEADER_HASH
C2_Witness ==
    /\ pc = "written"
    /\ out.cap = 1024
    /\ wres = Ok(<<>>)
    /\ header.name = NAME_TEST
    /\ Len(header.parts) = 2
    /\ SubSeq(out.data, 1021, 1024) = <<108, 246, 82, 194>>

\* C3 (as stated): every header from_bytes returns as Ok passes validate
\* (version 3, at most 27 parts, name of at most 128 bytes, no Invalid part).
C3_ParsedIsValid ==
    (pc = "parsed" /\ pres.ok) => validate(pres.val).ok

\* C4: on a 1024-byte input that starts with the image magic and whose
\* stored checksum differs from the checksum of its first 1020 bytes,
\* from_bytes returns the checksum mismatch with the stored and the
\* recomputed value; a corrupted version byte, part count or part slot with
\* the checksum left as it was is reported as that mismatch.
C4_ChecksumFirst ==
    (/\ pc = "parsed"
     /\ Len(buf) = 1024
     /\ SubSeq(buf, 1, 8) = MagicBytes)
    => /\ (StoredHash # BodyHash)
            => pres = Err([kind |-> "BadHash", expected |-> StoredHash,
                           actual |-> BodyHash])
       /\ (/\ wres = Ok(<<>>)
           /\ ~fixed
           /\ edit # 0
           /\ EDITS[edit].kind = "set"
           /\ EDITS[edit].at \in ({8, 9} \cup (144..1007)))
            => (~pres.ok /\ pres.err.kind = "BadHash")

\* a version byte was corrupted, the checksum was not recomputed, and the
\* answer is the checksum mismatch
C4_Witness ==
    /\ pc = "parsed"
    /\ ~fixed
    /\ edit # 0
    /\ EDITS[edit].kind = "set"
    /\ EDITS[edit].at = 8
    /\ buf[9] # 3
    /\ ~pres.ok
    /\ pres.err.kind = "BadHash"
    /\ pres.err.expected # pres.err.actual

\* C5: on a 1024-byte input whose first 8 bytes are not the image magic,
\* from_bytes returns the bad-magic error carrying these 8 bytes as a
\* little-endian u64, whether the trailing checksum matches or not.
C5_MagicFirst ==
    (/\ pc = "parsed"
     /\ Len(buf) = 1024
     /\ SubSeq(buf, 1, 8) # MagicBytes)
    => pres = Err([kind |-> "BadMagic", magic |-> FirstWord])

\* the magic is wrong, the checksum was recomputed and matches
C5_Witness ==
    /\ pc = "parsed"
    /\ fixed
    /\ Len(buf) = 1024
    /\ SubSeq(buf, 1, 8) # MagicBytes
    /\ ~pres.ok
    /\ pres.err.kind = "BadMagic"

\* C6: on an input whose length is not 1024, from_bytes returns the size
\* mismatch carrying the length, whatever the content.
C6_SizeMismatch ==
    (pc = "parsed" /\ Len(buf) # 1024)
    => pres = Err([kind |-> "BadSize", size |-> Len(buf)])

\* a valid 1024-byte header followed by one more byte
C6_Witness ==
    /\ pc = "parsed"
    /\ wres = Ok(<<>>)
    /\ edit # 0
    /\ EDITS[edit].kind = "extend"
    /\ Len(buf) = 1025
    /\ pres = Err([kind |-> "BadSize", size |-> 1025])

\* C7: on a 1024-byte input that passes the magic, checksum, version and
\* part-count checks, if k is the smallest declared slot that
\* PartHeader::from_bytes rejects, with error e, from_bytes returns the
\* invalid-part error with index k and cause e, which source() gives back.
C7_FirstInvalidPart ==
    (/\ pc = "parsed"
     /\ Len(buf) = 1024
     /\ SubSeq(buf, 1, 8) = MagicBytes
     /\ buf[9] = 3
     /\ buf[10] <= 27
     /\ RejectedSlots # {}
     /\ StoredHash = BodyHash)
    => /\ pres = Err([kind |-> "InvalidPart", index |-> FirstRejected,
                      err |-> PartFromBytes(Slot(FirstRejected)).err])
       /\ ErrorSource(pres.err) = Some(PartFromBytes(Slot(FirstRejected)).err)

\* two declared slots are rejected and the first of them is reported
C7_Witness ==
    /\ pc = "parsed"
    /\ fixed
    /\ Len(buf) = 1024
    /\ ~pres.ok
    /\ pres.err.kind = "InvalidPart"
    /\ pres.err.index = 0
    /\ {0, 1} \subseteq RejectedSlots

\* C8: the parsed name is the decoding of the bytes of the name field that
\* precede its first NUL, of all 128 bytes when it has none; the bytes
\* after the first NUL do not matter.
C8_NameBeforeNul ==
    (pc = "parsed" /\ pres.ok)
    => pres.val.name = from_utf8_lossy(SubSeq(NameField, 1, NamePrefixLen))

\* a parsed input whose name field has a nonzero byte after its first NUL
C8_Witness ==
    /\ pc = "parsed"
    /\ pres.ok
    /\ NamePrefixLen < 127
    /\ \E j \in (NamePrefixLen + 2)..128 : NameField[j] # 0

\* C9 (as stated): with the current version, validate answers
\* too-many-parts (with the count) for 28 or more parts, name-too-long
\* (with the length) for a name of 129 or more bytes, and Ok for at most 27
\* parts, a name of at most 128 bytes and no Invalid part.
C9_AsStated ==
    (pc = "validated" /\ header.version = 3)
    => /\ (Len(header.parts) >= 28)
            => vres = Err([kind |-> "TooManyParts", count |-> Len(header.parts)])
       /\ (Len(header.name) >= 129)
            => vres = Err([kind |-> "NameTooLong", len |-> Len(header.name)])
       /\ (/\ Len(header.parts) <= 27
           /\ Len(header.name) <= 128
           /\ \A i \in 1..Len(header.parts) : header.parts[i].ptype # "Invalid")
            => vres = Ok(<<>>)

\* C9 (amended): as above, but too-many-parts is the answer for 28 or more
\* parts only when the name has at most 128 bytes: the name is checked
\* before the part count.
C9_ValidateBounds ==
    (pc = "validated" /\ header.version = 3)
    => /\ (Len(header.parts) >= 28 /\ Len(header.name) <= 128)
            => vres = Err([kind |-> "TooManyParts", count |-> Len(header.parts)])
       /\ (Len(header.name) >= 129)
            => vres = Err([kind |-> "NameTooLong", len |-> Len(header.name)])
       /\ (/\ Len(header.parts) <= 27
           /\ Len(header.name) <= 128
           /\ \A i \in 1..Len(header.parts) : header.parts[i].ptype # "Invalid")
            => vres = Ok(<<>>)

\* 28 parts and a name of 129 bytes: the answer is name-too-long
C9_Witness ==
    /\ pc = "validated"
    /\ header.version = 3
    /\ Len(header.parts) = 28
    /\ Len(header.name) = 129
    /\ vres = Err([kind |-> "NameTooLong", len |-> 129])

\* C10: for a header validate rejects, write_to returns an error (wrapping
\* the validation error) and no byte has been written to the sink.
C10_ValidateBeforeWrite ==
    (pc = "written" /\ ~validate(header).ok)
    => /\ wres = Err([kind |-> "Other", source |-> validate(header).err])
       /\ out.data = <<>>

\* a header of the current version, within both bounds, with an Invalid
\* part: rejected, nothing written
C10_Witness ==
    /\ pc = "written"
    /\ header.version = 3
    /\ Len(header.name) <= 128
    /\ Len(header.parts) <= 27
    /\ \E i \in 1..Len(header.parts) : header.parts[i].ptype = "Invalid"
    /\ ~wres.ok
    /\ out.data = <<>>

\* the bytes "NIMGPART" every part header starts with (tests::GOOD_HEADER_START)
PartMagicBytes == <<78, 73, 77, 71, 80, 65, 82, 84>>

\* the little-endian bytes of a number held as 16-bit words, most
\* significant word first
RECURSIVE LeBytes(_)
LeBytes(words) ==
    IF words = <<>> THEN <<>>
    ELSE LeBytes(Tail(words)) \o <<Head(words) % 256, Head(words) \div 256>>

\* the type and compression byte of the bytes handed to the part parser,
\* and its first 8 bytes as a little-endian u64
TypeByte == pbytes[25]
CompByte == pbytes[26]
PartFirstWord ==
    <<pbytes[7] + (256 * pbytes[8]), pbytes[5] + (256 * pbytes[6]),
      pbytes[3] + (256 * pbytes[4]), pbytes[1] + (256 * pbytes[2])>>

\* the 32 bytes of a part header, field after field
PartLayout(h) ==
    PartMagicBytes \o LeBytes(h.size) \o LeBytes(h.offset)
        \o <<PartTypeAsU8(h.ptype), CompModeAsU8(h.comp), 0, 0>> \o LeBytes(h.xxh)

\* C11 (as stated): for every PartHeader value, Invalid type included,
\* write_to emits the 32 bytes magic, size, offset, type, compression, two
\* zeros, checksum, and from_bytes on them returns the same header.
C11_AsStated ==
    (/\ ppc = "reparsed"
     /\ (pwr.sink.cap < 0) \/ (pwr.sink.cap >= 32))
    => /\ pwr.ok /\ pbytes = PartLayout(pheader)
       /\ Len(pbytes) = 32
       /\ ppres = Ok(pheader)

\* C11 (amended): write_to emits these 32 bytes for every PartHeader value,
\* and from_bytes on them returns the same header when its type is not
\* Invalid; a header of type Invalid is written and then rejected.
C11_PartRoundTrip ==
    (/\ ppc \in {"written", "reparsed"}
     /\ (pwr.sink.cap < 0) \/ (pwr.sink.cap >= 32))
    => /\ pwr.ok
       /\ pbytes = PartLayout(pheader)
       /\ Len(pbytes) = 32
       /\ (ppc = "reparsed" /\ pheader.ptype # "Invalid") => ppres = Ok(pheader)
       /\ (ppc = "reparsed" /\ pheader.ptype = "Invalid")
            => ppres = Err([kind |-> "BadType", val |-> 0])

\* a header with the largest size, the last type and the last compression
\* mode comes back equal
C11_Witness ==
    /\ ppc = "reparsed"
    /\ pheader.size = <<65535, 65535, 65535, 65535>>
    /\ pheader.offset = <<0, 0, 475, 59448>>
    /\ pheader.ptype = "RootfsRw"
    /\ pheader.comp = "LibArchive"
    /\ pwr.ok
    /\ ppres = Ok(pheader)

\* C12: on 32 bytes with the part magic, the type byte is accepted only
\* when it is 1, 2, 3 or 4 (BootImg, BootTar, Rootfs, RootfsRw); 0 and every
\* byte from 5 on give the bad-type error carrying the byte; a parsed
\* PartHeader never has type Invalid.
C12_TypeByte ==
    (/\ ppc \in {"parsed", "reparsed"}
     /\ Len(pbytes) = 32
     /\ SubSeq(pbytes, 1, 8) = PartMagicBytes)
    => /\ (TypeByte \in 1..4 /\ CompByte <= 2)
            => /\ ppres.ok
               /\ ppres.val.ptype = <<"BootImg", "BootTar", "Rootfs", "RootfsRw">>[TypeByte]
       /\ (TypeByte \notin 1..4)
            => ppres = Err([kind |-> "BadType", val |-> TypeByte])
       /\ ppres.ok => ppres.val.ptype # "Invalid"

\* the type byte is the Invalid sentinel; everything else is valid
C12_Witness ==
    /\ ppc = "parsed"
    /\ Len(pbytes) = 32
    /\ SubSeq(pbytes, 1, 8) = PartMagicBytes
    /\ TypeByte = 0
    /\ CompByte = 0
    /\ ppres = Err([kind |-> "BadType", val |-> 0])

C19_PartCheckOrder ==
    (ppc \in {"parsed", "reparsed"})
    => IF Len(pbytes) # 32
       THEN ppres = Err([kind |-> "BadSize", size |-> Len(pbytes)])
       ELSE IF SubSeq(pbytes, 1, 8) # PartMagicBytes
       THEN ppres = Err([kind |-> "BadMagic", magic |-> PartFirstWord])
       ELSE IF TypeByte \notin 1..4
       THEN ppres = Err([kind |-> "BadType", val |-> TypeByte])
       ELSE IF CompByte > 2
       THEN ppres = Err([kind |-> "BadComp", val |-> CompByte])
       ELSE ppres.ok

\* the magic is right, the type byte and the compression byte are both
\* unknown: the answer is the bad type
C19_Witness ==
    /\ ppc = "parsed"
    /\ Len(pbytes) = 32
    /\ SubSeq(pbytes, 1, 8) = PartMagicBytes
    /\ TypeByte = 5
    /\ CompByte = 3
    /\ ppres = Err([kind |-> "BadType", val |-> 5])

\* ------------------------------------------------------------------------
\* The checksum wrappers
\* ------------------------------------------------------------------------
\* Reader::hash / Writer::hash and Reader::total_len / Writer::total_len
WrapperHash == XxhFinish(hw.xxh)
WrapperTotalLen == hw.xxh.total_len

\* C14: when the bytes d go through Writer::write or Reader::read in two
\* chunks a and b with d = a ++ b, at whatever split point (either chunk may
\* be empty), hash() is xxhash32(d) and total_len() is the length of d.
C14_TwoChunks ==
    (hw.kind \in {"reader", "writer"} /\ hw.calls = 2 /\ hw.full
            /\ hw.pos = Len(hw.data))
        => /\ WrapperHash = xxhash32(hw.data)
           /\ WrapperTotalLen = Len(hw.data)

\* "Hello, world!\0" read as 9 + 5 bytes: the digest of test_writer
C14_Witness ==
    /\ hw.kind = "reader"
    /\ hw.data = HELLO
    /\ hw.calls = 2
    /\ hw.full
    /\ hw.ret = Ok(5)
    /\ hw.pos = Len(HELLO)
    /\ WrapperHash = <<40542, 32403>>
    /\ WrapperTotalLen = 14

\* C15: after any sequence of calls on a read- or write-wrapper, the call
\* returns what the inner stream returned; a call in which the inner stream
\* failed leaves hash() and total_len() as they were; a call that moved fewer
\* bytes than asked accumulated exactly the bytes moved, so that hash() is
\* the digest of all the bytes the inner stream moved and total_len() their
\* number.
C15_OnlyMovedBytes ==
    (hw.kind \in {"reader", "writer"})
        => /\ hw.ret = hw.inner
           /\ (hw.calls > 0 /\ ~hw.ret.ok) => hw.xxh = hw.prev
           /\ WrapperHash = xxhash32(hw.moved)
           /\ WrapperTotalLen = Len(hw.moved)

\* a write that failed after a write that fell short by one byte
C15_Witness ==
    /\ hw.kind = "writer"
    /\ hw.calls = 3
    /\ ~hw.full
    /\ hw.ret = Err([kind |-> "Interrupted"])
    /\ Len(hw.moved) = 16
    /\ Len(hw.data) = 33
    /\ hw.xxh = hw.prev
    /\ WrapperHash = xxhash32(SubSeq(LOREM, 1, 16))

\* ------------------------------------------------------------------------
\* The primitive reader
\* ------------------------------------------------------------------------
\* bytes between the position before the last call and the end of the buffer
RemainingBefore == IF rd.prev >= Len(rd.buf) THEN 0 ELSE Len(rd.buf) - rd.prev

\* C16: after any sequence of skip, seek and read_borrow calls (reads in
\* between included) the position is within [0, L] for a buffer of L bytes,
\* and no call has answered an out-of-range request with an error.
C16_Clamped ==
    rd.on => /\ rd.pos \in 0..Len(rd.buf)
             /\ (rd.op = "seek" => rd.ret.ok)

\* C17: read_byte, read_u32_le and read_u64_le with fewer than 1, 4, 8 bytes
\* remaining return None and leave the position where it was; a read that
\* fits returns the value at the position and moves past it, also right after
\* a read that returned None.
C17_ShortReadIsNone ==
    (rd.on /\ rd.op \in ReadOps)
        => IF RemainingBefore < rd.arg
           THEN rd.ret = None /\ rd.pos = rd.prev
           ELSE /\ rd.pos = rd.prev + rd.arg
                /\ rd.ret = Some(CASE rd.op = "read_byte" -> rd.buf[rd.prev + 1]
                                   [] rd.op = "read_u32_le" -> U32FromLE(rd.buf, rd.prev + 1)
                                   [] rd.op = "read_u64_le" -> U64FromLE(rd.buf, rd.prev + 1))

\* test_read_helper: at 28 of 32 bytes read_u64_le returned None, then
\* read_u32_le returned the last four bytes
C17_Witness ==
    /\ rd.on
    /\ rd.buf = HEADER_ARR
    /\ rd.failed
    /\ rd.op = "read_u32_le"
    /\ rd.prev = 28
    /\ rd.pos = 32
    /\ rd.ret = Some(<<52604, 10273>>)

\* C18: read_borrow(count) with r bytes remaining returns the next
\* min(count, r) bytes, and skip(count) returns min(count, r).
C18_UpToCount ==
    /\ (rd.on /\ rd.op = "read_borrow")
          => rd.ret = SubSeq(rd.buf, rd.prev + 1,
                             rd.prev + Min(rd.arg, RemainingBefore))
    /\ (rd.on /\ rd.op = "skip") => rd.ret = Min(rd.arg, RemainingBefore)

\* ------------------------------------------------------------------------
\* Streaming consumers
\* ------------------------------------------------------------------------
\* the running offset before the part at (0-based) index k of an in-order
\* walk: 0 at first, then past the padding and the payload of each part
RECURSIVE CurBefore(_, _)
CurBefore(parts, k) ==
    IF k = 0 THEN 0
    ELSE LET c == CurBefore(parts, k - 1)
             off == U64AsNat(parts[k].offset)
         IN  (IF off > c THEN off ELSE c) + U64AsNat(parts[k].size)

\* the first index whose offset is below the running offset, or -1
FirstOutOfOrder(parts) ==
    LET bad == {k \in 0..(Len(parts) - 1) : U64AsNat(parts[k + 1].offset) < CurBefore(parts, k)}
    IN  IF bad = {} THEN -1 ELSE CHOOSE k \in bad : \A j \in bad : k <= j

\* C20: ImageHeader::from_bytes accepts part offsets in any order;
\* check_image and do_swdl walk the parts with a running offset, and the
\* first part whose offset is below it ends the walk with the out-of-order
\* error, no byte of its padding or payload read and no later part looked
\* at; a part whose offset is above the running offset has exactly the
\* difference read as padding before its payload.
C20_OutOfOrderRejected ==
    (sw.consumer \in {"check", "swdl"})
        => LET bad == FirstOutOfOrder(sw.parts)
           IN  /\ sw.accepted
               /\ (sw.pc = "done" /\ ~sw.result.ok /\ sw.result.err.kind = "OutOfOrder")
                     => /\ sw.result.err.index = bad
                        /\ sw.padded[bad + 1] = -1
                        /\ sw.payload[bad + 1] = 0
               /\ (bad >= 0)
                     => /\ sw.i <= bad
                        /\ (sw.i = bad => sw.pc # "payload")
                        /\ (sw.i = bad /\ sw.pc = "done")
                              => sw.result = Err([kind |-> "OutOfOrder", index |-> bad,
                                                  offset |-> U64AsNat(sw.parts[bad + 1].offset)])
                        /\ \A k \in (bad + 1)..Len(sw.parts) : sw.payload[k] = 0
               /\ \A k \in 1..Len(sw.parts) :
                     /\ (sw.payload[k] > 0) => sw.padded[k] >= 0
                     /\ (sw.padded[k] >= 0)
                           => LET c == CurBefore(sw.parts, k - 1)
                                  off == U64AsNat(sw.parts[k].offset)
                              IN  sw.padded[k] = (IF off > c THEN off - c ELSE 0)

\* do_swdl: one byte of padding, two of payload, two more of payload, then
\* a third part at offset 3 while the running offset is 5
C20_Witness ==
    /\ sw.consumer = "swdl"
    /\ Len(sw.parts) = 3
    /\ sw.result = Err([kind |-> "OutOfOrder", index |-> 2, offset |-> 3])
    /\ sw.padded = <<1, 0, -1>>
    /\ sw.payload = <<2, 2, 0>>
    /\ sw.cur = 5

\* ------------------------------------------------------------------------
\* mknImage create
\* ------------------------------------------------------------------------

\* what a part argument must look like: FILE:TYPE[:COMPRESSION] with FILE
\* not empty, TYPE a part type of the help text, COMPRESSION a mode name
\* with an optional '+' suffix, and nothing after it
ValidPartArg(arg) ==
    LET words == StrSplit(arg, COLON)
    IN  /\ Len(words) \in {2, 3}
        /\ words[1] # <<>>
        /\ words[2] \in HelpPartTypes
        /\ Len(words) = 3 =>
              StrSplitN2(words[3], PLUS)[1] \in {COMP_MODE_NAMES[i][2] : i \in 1..3}

\* C26: cmd_create opens the output file only when every part argument is
\* FILE:TYPE[:COMPRESSION] with a non-empty FILE, a TYPE that the help text
\* lists (not "invalid"), a valid or absent COMPRESSION and no further
\* field; every other argument is rejected before the file is created.
C26_RejectedBeforeOpen ==
    cr.pc # "off" /\ cr.created => \A i \in 1..Len(cr.args) : ValidPartArg(cr.args[i])

\* the padding that follows a payload of size bytes
PadOf(size) == (16 - (size % 16)) % 16

\* C21: after any sequence of successful add_part calls the parts are in
\* insertion order, the first offset is 0, every offset is a multiple of
\* 16, and each next offset is the previous offset plus the previous size
\* plus its padding (16 - size mod 16) mod 16: offsets never decrease and
\* no two parts overlap.
C21_Layout ==
    cr.pc # "off" =>
        LET parts == cr.header.parts
            off(i) == U64AsNat(parts[i].offset)
            size(i) == U64AsNat(parts[i].size)
        IN  /\ Len(parts) <= Len(cr.inputs)
            /\ \A i \in 1..Len(parts) :
                  /\ parts[i].ptype = cr.inputs[i].ptype
                  /\ parts[i].comp = cr.inputs[i].comp
                  /\ off(i) % 16 = 0
            /\ Len(parts) >= 1 => off(1) = 0
            /\ \A i \in 1..(Len(parts) - 1) :
                  /\ off(i + 1) = off(i) + size(i) + PadOf(size(i))
                  /\ off(i) <= off(i + 1)
                  /\ off(i) + size(i) <= off(i + 1)

\* two parts were added, the first of 16 bytes (no padding)
C21_Witness ==
    /\ cr.pc = "done"
    /\ cr.result = Ok(<<>>)
    /\ Len(cr.header.parts) = 2
    /\ U64AsNat(cr.header.parts[1].size) = 16
    /\ U64AsNat(cr.header.parts[2].offset) = 16

\* the bytes the output file holds for part i of the create run
StoredPayload(i) ==
    SubSeq(cr.out.data,
           NIMG_HDR_SIZE + U64AsNat(cr.header.parts[i].offset) + 1,
           NIMG_HDR_SIZE + U64AsNat(cr.header.parts[i].offset)
               + U64AsNat(cr.header.parts[i].size))

\* the bytes add_part has to store for part i: the part file, or its zstd
\* frame when auto-compression was asked for
ExpectedPayload(i) ==
    IF cr.inputs[i].auto_comp.some
    THEN ZstdEncode(FileContent(cr.inputs[i].filename).val)
    ELSE FileContent(cr.inputs[i].filename).val

\* C22: the PartHeader that add_part records has size = the number of
\* payload bytes written to the output (after the optional compression,
\* without the padding that follows) and checksum = the digest of exactly
\* those bytes; program_raw computes its digest over the stored bytes it
\* reads, compressed or not, and so accepts every part that add_part wrote.
C22_SizeAndChecksum ==
    cr.pc # "off" /\ cr.out # None =>
        /\ \A i \in 1..Len(cr.header.parts) :
              LET part == cr.header.parts[i]
                  size == U64AsNat(part.size)
                  end == NIMG_HDR_SIZE + U64AsNat(part.offset) + size
              IN  /\ end + PadOf(size) <= Len(cr.out.data)
                  /\ size = Len(ExpectedPayload(i))
                  /\ StoredPayload(i) = ExpectedPayload(i)
                  /\ part.xxh = xxhash32(StoredPayload(i))
                  /\ \A k \in 1..PadOf(size) : cr.out.data[end + k] = 0
        /\ cr.pc = "flashed" =>
              \A i \in 1..Len(cr.header.parts) :
                  cr.header.parts[i].comp # "LibArchive" =>
                      /\ cr.flash[i].res = Some(Ok(cr.header.parts[i].xxh))
                      /\ cr.flash[i].fed = StoredPayload(i)
                      /\ cr.flash[i].total = U64AsNat(cr.header.parts[i].size)
                      /\ XxhFinish(cr.flash[i].xxh) = xxhash32(StoredPayload(i))

\* an image with an auto-compressed part was flashed: the device holds the
\* part file, whose digest is not the checksum of the part
C22_Witness ==
    /\ cr.pc = "flashed"
    /\ \E i \in 1..Len(cr.header.parts) :
          /\ cr.inputs[i].auto_comp.some
          /\ cr.header.parts[i].comp = "Zstd"
          /\ U64AsNat(cr.header.parts[i].size) = 42
          /\ DeviceBytes(cr.flash[i], cr.header.parts[i])
                = FileContent(cr.inputs[i].filename).val
          /\ xxhash32(DeviceBytes(cr.flash[i], cr.header.parts[i]))
                # cr.header.parts[i].xxh

PayloadRead == SubSeq(pl.src, 1, U64AsNat(pl.part.size))

\* C23: read_exact_crc and the copy loop of program_raw never ask for more
\* than the bytes still missing, stop when the total reaches the size,
\* return the digest of exactly these bytes, fail with an end-of-file error
\* and no checksum verdict when the input ends early, and the part is
\* accepted only if the digest equals the stored checksum.
C23_ExactlySize ==
    pl.pc # "off" =>
        /\ pl.st.to_read <= pl.st.missing
        /\ pl.st.total <= U64AsNat(pl.part.size)
        /\ pl.st.total <= Len(pl.src)
        /\ pl.st.res.some <=> pl.pc = "done"
        /\ pl.pc = "done" =>
              LET res == pl.st.res.val
              IN  /\ res.ok =>
                        /\ pl.st.total = U64AsNat(pl.part.size)
                        /\ res.val = xxhash32(PayloadRead)
                        /\ res.val = pl.part.xxh
                  /\ ~res.ok /\ res.err.kind = "Mismatch" =>
                        /\ pl.st.total = U64AsNat(pl.part.size)
                        /\ res.err.actual = xxhash32(PayloadRead)
                        /\ res.err.actual # pl.part.xxh
                  /\ ~res.ok /\ res.err.kind = "EOF" =>
                        /\ pl.st.total = Len(pl.src)
                        /\ pl.st.total < U64AsNat(pl.part.size)
                  /\ Len(pl.src) < U64AsNat(pl.part.size) =>
                        /\ ~res.ok
                        /\ res.err.kind \in {"EOF", "Read", "Write", "Unsupported"}

\* a payload of 5 bytes was read in several reads from an input that goes
\* on after it, and accepted
C23_Witness ==
    /\ pl.pc = "done"
    /\ pl.st.res.val.ok
    /\ pl.reads >= 2
    /\ U64AsNat(pl.part.size) = 5
    /\ Len(pl.src) = 7

\* ------------------------------------------------------------------------
\* ImageHeader::from_bytes and validate, continued
\* ------------------------------------------------------------------------

\* the bytes write_to wrote for the header of the codec run
WrittenBytes == write_to(header, VecWriter).w.data

\* the trailing checksum of b is the checksum of the bytes before it
OwnChecksum(b) ==
    U32FromLE(b, NIMG_HDR_SIZE - 3) = xxhash32(SubSeq(b, 1, NIMG_HDR_SIZE - 4))

\* a and b agree on every byte that carries a field: magic, version, part
\* count n, the name up to its first NUL, and in each of the first n slots
\* the magic, size, offset, type, compression (26 bytes) and the checksum
SameFields(a, b) ==
    /\ SubSeq(a, 1, 10) = SubSeq(b, 1, 10)
    /\ NullPos(SubSeq(a, 17, 144)) = NullPos(SubSeq(b, 17, 144))
    /\ SubSeq(a, 17, 16 + NullPos(SubSeq(a, 17, 144)))
          = SubSeq(b, 17, 16 + NullPos(SubSeq(a, 17, 144)))
    /\ \A i \in 0..(Min(a[10], NIMG_MAX_PARTS) - 1) :
          /\ SubSeq(a, 144 + (32 * i) + 1, 144 + (32 * i) + 26)
                = SubSeq(b, 144 + (32 * i) + 1, 144 + (32 * i) + 26)
          /\ SubSeq(a, 144 + (32 * i) + 29, 144 + (32 * i) + 32)
                = SubSeq(b, 144 + (32 * i) + 29, 144 + (32 * i) + 32)

\* C25: from_bytes ignores the bytes that carry no field: two buffers of
\* 1024 bytes with matching own checksums that agree on magic, version,
\* part count n, the name before its first NUL and the fields of the first
\* n slots parse to the same result, whatever the 6 reserved bytes, the
\* name bytes after the NUL, the 2 reserved bytes of a slot, the slots from
\* n on and the 12 trailing reserved bytes hold.
C25_ReservedIgnored ==
    pc = "parsed" /\ wres.ok /\ edit # 0 /\ Len(buf) = NIMG_HDR_SIZE =>
        LET written == WrittenBytes
        IN  OwnChecksum(buf) /\ SameFields(buf, written) => pres = from_bytes(written)

\* a header was written, the two reserved bytes of its slot 0 were set to
\* 255, the checksum recomputed, and the buffer parsed
C25_Witness ==
    /\ pc = "parsed"
    /\ fixed
    /\ edit # 0
    /\ EDITS[edit].at = 170
    /\ pres.ok
    /\ Len(pres.val.parts) >= 1
    /\ buf # WrittenBytes
    /\ SameFields(buf, WrittenBytes)

\* C27: from_bytes never panics on a buffer of 1024 bytes: every unwrap
\* finds Some / Ok, the name read returns 128 bytes, each of the n <= 27
\* slot reads returns 32 bytes that lie in [144, 1008), so that an
\* invalid-part error never carries a bad-size error of the part level.
C27_ReadsSucceed ==
    pc = "parsed" /\ Len(buf) = NIMG_HDR_SIZE =>
        LET r == FromBytesReads(buf)
        IN  /\ \A i \in 1..Len(r.unwraps) : r.unwraps[i]
            /\ r.name \in {-1, NIMG_NAME_LEN}
            /\ Len(r.slots) <= NIMG_MAX_PARTS
            /\ \A i \in 1..Len(r.slots) :
                  /\ r.slots[i].len = NIMG_PHDR_SIZE
                  /\ r.slots[i].at >= 144
                  /\ r.slots[i].at + NIMG_PHDR_SIZE <= 1008
            /\ pres.ok =>
                  /\ r.name = NIMG_NAME_LEN
                  /\ Len(r.slots) = Len(pres.val.parts)
            /\ ~pres.ok /\ pres.err.kind = "InvalidPart" =>
                  pres.err.err.kind # "BadSize"

\* a header of 27 parts was parsed
C27_Witness ==
    /\ pc = "parsed"
    /\ Len(buf) = NIMG_HDR_SIZE
    /\ pres.ok
    /\ Len(pres.val.parts) = NIMG_MAX_PARTS
    /\ Len(FromBytesReads(buf).slots) = NIMG_MAX_PARTS

\* the indices (from 0) of the parts of type Invalid
InvalidIndices == {i \in 0..(Len(header.parts) - 1) : header.parts[i + 1].ptype = "Invalid"}

\* C28: validate checks version, name length, part count, part types in
\* this order and reports the first violation: a wrong version whatever
\* else is wrong, a name that is too long even with 28 parts, and for
\* several Invalid parts the smallest index with bad-type(0) nested.
C28_ValidateOrder ==
    pc = "validated" =>
        /\ header.version # NIMG_CURRENT_VERSION =>
              vres = Err([kind |-> "UnsupportedVersion", version |-> header.version])
        /\ header.version = NIMG_CURRENT_VERSION /\ Len(header.name) > NIMG_NAME_LEN =>
              vres = Err([kind |-> "NameTooLong", len |-> Len(header.name)])
        /\ (/\ header.version = NIMG_CURRENT_VERSION
            /\ Len(header.name) <= NIMG_NAME_LEN
            /\ Len(header.parts) > NIMG_MAX_PARTS) =>
              vres = Err([kind |-> "TooManyParts", count |-> Len(header.parts)])
        /\ (/\ header.version = NIMG_CURRENT_VERSION
            /\ Len(header.name) <= NIMG_NAME_LEN
            /\ Len(header.parts) <= NIMG_MAX_PARTS) =>
              IF InvalidIndices = {} THEN vres = Ok(<<>>)
              ELSE /\ ~vres.ok
                   /\ vres.err.kind = "InvalidPart"
                   /\ vres.err.index \in InvalidIndices
                   /\ \A i \in InvalidIndices : vres.err.index <= i
                   /\ vres.err.err = [kind |-> "BadType", val |-> 0]

\* a header with a name of 129 bytes and 28 parts was validated
C28_Witness ==
    /\ pc = "validated"
    /\ header.version = NIMG_CURRENT_VERSION
    /\ Len(header.name) = NIMG_NAME_LEN + 1
    /\ Len(header.parts) = NIMG_MAX_PARTS + 1
    /\ vres = Err([kind |-> "NameTooLong", len |-> NIMG_NAME_LEN + 1])

\* ------------------------------------------------------------------------
\* flash banks
\* ------------------------------------------------------------------------

\* the indices of the words that start with "root="
RootWords(words) == {i \in 1..Len(words) : starts_with(words[i], ROOT_EQ)}

\* the indices of the words "ro" and "rw"
RoRwWords(words) == {i \in 1..Len(words) : words[i] \in {WORD_ro, WORD_rw}}

\* the smallest element of a non-empty set of numbers
Least(S) == CHOOSE i \in S : \A j \in S : i <= j

\* C29: get_inactive_rootfs returns the other bank when the first word of
\* the command line that starts with "root=" names one of the two banks
\* (p2 gives p3, p3 gives p2, never the active one), and None when there is
\* no root= word or the first one names another device.
C29_OtherBank ==
    fb.pc = "asked" =>
        LET words == split_ascii_whitespace(fb.cmdline)
            roots == RootWords(words)
            first == words[Least(roots)]
        IN  /\ roots = {} => fb.inactive = None
            /\ roots # {} =>
                  /\ first = ROOT_EQ \o ROOTFS_DEVS[1] => fb.inactive = Some(ROOTFS_DEVS[2])
                  /\ first = ROOT_EQ \o ROOTFS_DEVS[2] => fb.inactive = Some(ROOTFS_DEVS[1])
                  /\ first \notin {ROOT_EQ \o ROOTFS_DEVS[1], ROOT_EQ \o ROOTFS_DEVS[2]}
                        => fb.inactive = None
                  /\ fb.inactive.some => ROOT_EQ \o fb.inactive.val # first

\* the command line names bank p2 and then bank p3; the answer is p3
C29_Witness ==
    /\ fb.pc = "asked"
    /\ fb.cmdline = WordPool[1] \o <<32>> \o WordPool[4] \o <<32>> \o WordPool[2]
    /\ fb.inactive = Some(ROOTFS_DEVS[2])

\* what the claim says of the words of the result: the first root= word
\* and the first ro/rw word replaced where they were, the later ones
\* dropped, every other word kept, a missing root= word appended and a
\* missing ro/rw word appended last
ExpectedWords(words, new_rootfs, rw) ==
    LET roots == RootWords(words)
        rorws == RoRwWords(words)
        keep(i) == /\ i \in roots => i = Least(roots)
                   /\ i \in rorws => i = Least(rorws)
        kept == SelectSeq([i \in 1..Len(words) |-> i], keep)
    IN  [j \in 1..Len(kept) |->
            IF kept[j] \in roots THEN ROOT_EQ \o new_rootfs
            ELSE IF kept[j] \in rorws THEN (IF rw THEN WORD_rw ELSE WORD_ro)
            ELSE words[kept[j]]]
        \o (IF roots = {} THEN <<ROOT_EQ \o new_rootfs>> ELSE <<>>)
        \o (IF rorws = {} THEN <<IF rw THEN WORD_rw ELSE WORD_ro>> ELSE <<>>)

====
